---------------------------- MODULE Spec2Model ----------------------------
(***************************************************************************)
(* Model of the care-bot-central chat assistant:                           *)
(*   - the health-query matcher and response generator of ChatBot          *)
(*     (searchHealthInformation, generateHealthResponse),                  *)
(*   - the VoiceRecorder class (startRecording, stopRecording, cleanup),   *)
(*   - the ChatBot component's conversation log (handleSend,               *)
(*     loadChatHistory, saveMessageToDatabase) and its voice handlers.     *)
(*                                                                         *)
(* JavaScript strings are sequences of one-character strings; literal      *)
(* text of a template is carried as one token of the sequence.             *)
(***************************************************************************)
EXTENDS Integers, Sequences, FiniteSets, TLC

VARIABLES
  healthInformation,  \* ChatBot state: the topic table (useState<HealthInfo[]>)
  healthLoad,         \* loadHealthInformation: "pending" until its select settles
  asked,              \* the text handed to generateHealthResponse
  seenTable,          \* the healthInformation that call read
  relevantInfo,       \* what searchHealthInformation returned to it
  response,           \* the string generateHealthResponse returned
  input,              \* ChatBot state: the text of the input field
  isRecording,        \* ChatBot state: the recording flag
  isProcessingAudio,  \* ChatBot state: the processing flag
  microphoneError,    \* ChatBot state: the message shown above the input
  recordingTimerRef,  \* recordingTimerRef.current: an interval id, 0 for null
  activeTimers,       \* the intervals set and not yet cleared
  mediaRecorder,      \* VoiceRecorder.mediaRecorder: a recorder id, 0 for null
  stream,             \* VoiceRecorder.stream: a stream id, 0 for null
  audioChunks,        \* VoiceRecorder.audioChunks
  recState,           \* MediaRecorder.state of each recorder object
  recMime,            \* MediaRecorder.mimeType of each recorder object
  onstop,             \* MediaRecorder.onstop: the stopRecording call it settles, 0 for none
  stopQueued,         \* the platform has a stop notification queued for the recorder
  acquired,           \* the streams getUserMedia has handed out
  trackStops,         \* track.stop() calls received by the track of each stream
  delivered,          \* how many chunks with data the platform handed each recorder
  startPc,            \* where each handleStartRecording invocation stands
  startCaught,         \* what the catch block of its startRecording call caught
  startThrown,         \* the message of the error that call threw, Null for none
  stopCalls,          \* the handleStopRecording invocations so far
  stopPc,             \* where the latest handleStopRecording invocation stands
  stopRec,            \* the recorder its stopRecording call found in mediaRecorder
  stopResult,         \* how the promise of that call settled
  audioBlob,          \* the blob handleStopRecording holds while it converts it
  supportedTypes,     \* the MIME types MediaRecorder.isTypeSupported accepts
  messages,           \* ChatBot state: the conversation log
  isTyping,           \* ChatBot state: the typing indicator
  user,               \* ChatBot state: the signed-in account, 0 for null
  now,                \* the clock Date.now() reads
  lastChange,         \* when the text of the input field last changed
  db,                 \* the rows of chat_conversations, in created_at order
  sendPc,             \* where each handleSend invocation stands
  lastSend,           \* how the latest handleSend call ended: "ignored" or "accepted"
  sendUser,           \* the user its closure holds
  sendText,           \* userMessage.text of the invocation
  sendDue,            \* when its setTimeout callback may run
  saveDone,           \* the invocations whose save of the user message has returned
  authEvents,         \* the setUser calls made by getUser and onAuthStateChange
  loadsPending,       \* the loadChatHistory calls whose select has not settled
  greetingSaves,      \* the saves of the greeting that have not settled
  mounted,            \* the ChatBot component is mounted
  tornDown,           \* the recorder the teardown found recording, 0 for none
  stopPromises,       \* the promise of each stopRecording call and its recorder
  called,             \* the helper function called last on its own, "" for none
  args,               \* the arguments of that call
  result,             \* what it returned
  authUser,           \* AuthProvider state: the current user, null for none
  renderedUser,       \* the user the closures of the last render hold
  storedUser,         \* localStorage item 'user': a JSON text, null when absent
  authCalls,          \* the login and signup calls and where each stands
  lastCall            \* the AuthProvider call completed last and what it returned

matcherVars == <<healthInformation, healthLoad, asked, seenTable, relevantInfo, response>>

voiceVars ==
  <<isRecording, isProcessingAudio, microphoneError, recordingTimerRef,
    activeTimers, mediaRecorder, stream, audioChunks, recState, recMime, onstop,
    stopQueued, acquired, trackStops, delivered, startPc, startCaught, startThrown,
    stopCalls, stopPc, stopRec, stopResult, audioBlob, supportedTypes>>

chatVars ==
  <<messages, isTyping, user, now, lastChange, db, sendPc, lastSend, sendUser, sendText,
    sendDue, saveDone, authEvents, loadsPending, greetingSaves>>

\* the component's life cycle and the stopRecording promises made in it
lifeVars == <<mounted, tornDown, stopPromises>>

\* a helper function called on its own
callVars == <<called, args, result>>

\* the local authentication provider
authVars == <<authUser, renderedUser, storedUser, authCalls, lastCall>>

vars == <<matcherVars, input, voiceVars, chatVars, lifeVars, callVars, authVars>>

\* what the matcher operations leave alone
notMatcher == <<input, voiceVars, chatVars, lifeVars, callVars, authVars>>

\* what the voice operations leave alone
notVoice == <<matcherVars, chatVars, lifeVars, callVars, authVars>>

\* what the chat operations leave alone
notChat == <<matcherVars, voiceVars, lifeVars, callVars, authVars>>

\* what a helper function called on its own leaves alone
notCall == <<matcherVars, input, voiceVars, chatVars, lifeVars, authVars>>

\* what the authentication provider leaves alone
notAuth == <<matcherVars, input, voiceVars, chatVars, lifeVars, callVars>>

-----------------------------------------------------------------------------
(* JavaScript values                                                       *)

\* null / undefined of a string-typed field
Null == <<"null">>

\* the TypeError raised by a method call on null
TypeError == <<"TypeError">>

\* Array.prototype.find: the empty option when no element satisfies
None == <<>>

Min(S) == CHOOSE x \in S : \A y \in S : x <= y

Range(seq) == {seq[i] : i \in 1..Len(seq)}

UpperAlpha ==
  <<"A","B","C","D","E","F","G","H","I","J","K","L","M","N","O","P","Q","R","S","T","U","V","W","X","Y","Z">>

LowerAlpha ==
  <<"a","b","c","d","e","f","g","h","i","j","k","l","m","n","o","p","q","r","s","t","u","v","w","x","y","z">>

\* the lower-case letter of each upper-case letter
LowerMap ==
  [c \in Range(UpperAlpha) |->
     LowerAlpha[CHOOSE i \in 1..Len(UpperAlpha) : UpperAlpha[i] = c]]

LowerChar(c) == IF c \in DOMAIN LowerMap THEN LowerMap[c] ELSE c

\* String.prototype.toLowerCase; a call on null raises
toLowerCase(s) ==
  IF s = Null THEN TypeError ELSE [i \in 1..Len(s) |-> LowerChar(s[i])]

\* String.prototype.includes
includes(s, sub) ==
  \E i \in 0..(Len(s) - Len(sub)) : \A j \in 1..Len(sub) : s[i + j] = sub[j]

\* String.prototype.split with a one-character separator
RECURSIVE split(_, _)
split(s, sep) ==
  IF \A i \in 1..Len(s) : s[i] # sep
  THEN <<s>>
  ELSE LET i == Min({j \in 1..Len(s) : s[j] = sep})
       IN  <<SubSeq(s, 1, i - 1)>> \o split(SubSeq(s, i + 1, Len(s)), sep)

\* Array.prototype.join
RECURSIVE join(_, _)
join(parts, sep) ==
  IF Len(parts) = 0 THEN <<>>
  ELSE IF Len(parts) = 1 THEN parts[1]
  ELSE parts[1] \o sep \o join(Tail(parts), sep)

\* Array.prototype.filter, kept in order
RECURSIVE filterLonger(_, _)
filterLonger(terms, n) ==
  IF Len(terms) = 0 THEN <<>>
  ELSE (IF Len(terms[1]) > n THEN <<terms[1]>> ELSE <<>>)
       \o filterLonger(Tail(terms), n)

\* a string is truthy when it is neither null nor empty
truthy(s) == s # Null /\ s # <<>>

-----------------------------------------------------------------------------
(* The matcher: ChatBot.isDiseaseQuery .. ChatBot.searchHealthInformation  *)

diseaseKeywords ==
  << <<"d","i","s","e","a","s","e">>,
     <<"i","l","l","n","e","s","s">>,
     <<"c","o","n","d","i","t","i","o","n">>,
     <<"s","y","m","p","t","o","m">>,
     <<"s","y","n","d","r","o","m","e">>,
     <<"d","i","s","o","r","d","e","r">>,
     <<"i","n","f","e","c","t","i","o","n">>,
     <<"v","i","r","u","s">>,
     <<"b","a","c","t","e","r","i","a">>,
     <<"c","a","n","c","e","r">>,
     <<"t","u","m","o","r">>,
     <<"p","a","i","n">>,
     <<"a","c","h","e">>,
     <<"f","e","v","e","r">>,
     <<"i","n","f","l","a","m","m","a","t","i","o","n">>,
     <<"a","l","l","e","r","g","y">>,
     <<"d","i","a","b","e","t","e","s">>,
     <<"h","y","p","e","r","t","e","n","s","i","o","n">>,
     <<"d","e","p","r","e","s","s","i","o","n">>,
     <<"a","n","x","i","e","t","y">>,
     <<"a","s","t","h","m","a">>,
     <<"a","r","t","h","r","i","t","i","s">> >>

isDiseaseQuery(txt) ==
  \E k \in 1..Len(diseaseKeywords) : includes(toLowerCase(txt), diseaseKeywords[k])

commonDiseases ==
  << <<"d","i","a","b","e","t","e","s">>,
     <<"h","y","p","e","r","t","e","n","s","i","o","n">>,
     <<"h","e","a","r","t"," ","d","i","s","e","a","s","e">>,
     <<"a","s","t","h","m","a">>,
     <<"a","r","t","h","r","i","t","i","s">>,
     <<"d","e","p","r","e","s","s","i","o","n">>,
     <<"a","n","x","i","e","t","y">>,
     <<"c","a","n","c","e","r">>,
     <<"s","t","r","o","k","e">>,
     <<"p","n","e","u","m","o","n","i","a">>,
     <<"b","r","o","n","c","h","i","t","i","s">>,
     <<"a","l","l","e","r","g","i","e","s">>,
     <<"m","i","g","r","a","i","n","e">>,
     <<"o","b","e","s","i","t","y">> >>

\* Array.prototype.filter of getSuggestedDiseaseTerms, kept in list order
RECURSIVE relatedDiseases(_, _)
relatedDiseases(list, txt) ==
  IF Len(list) = 0 THEN <<>>
  ELSE (IF \/ includes(list[1], split(txt, " ")[1])
           \/ includes(txt, split(list[1], " ")[1])
        THEN <<list[1]>> ELSE <<>>)
       \o relatedDiseases(Tail(list), txt)

\* related.slice(0, 3)
SuggestionLimit == 3

noSuggestionText ==
  <<"specific disease name, symptoms you're experiencing, or the affected body part">>

\* the same without related.slice(0, 3): every related name is listed
getSuggestedDiseaseTerms_unsliced(txt) ==
  LET related == relatedDiseases(commonDiseases, txt)
  IN  IF Len(related) > 0 THEN join(related, <<",", " ">>) ELSE noSuggestionText

getSuggestedDiseaseTerms(txt) ==
  LET related == relatedDiseases(commonDiseases, txt)
  IN  IF Len(related) > 0
      THEN join(SubSeq(related, 1, IF Len(related) < SuggestionLimit
                                   THEN Len(related) ELSE SuggestionLimit),
                <<",", " ">>)
      ELSE noSuggestionText

\* calculateSimilarity returns 0 below this length
MinSimilarityLen == 3

\* a variant without the test of the lengths
calculateSimilarity_unguarded(str1, str2) ==
  LET longer  == IF Len(str1) > Len(str2) THEN str1 ELSE str2
      shorter == IF Len(str1) > Len(str2) THEN str2 ELSE str1
  IN  IF Len(longer) = 0 THEN [num |-> 1, den |-> 1]
      ELSE [num |-> Cardinality({i \in 1..Len(shorter) : longer[i] = shorter[i]}),
            den |-> Len(longer)]

\* calculateSimilarity: the quotient matches / longer.length as a fraction
calculateSimilarity(str1, str2) ==
  IF Len(str1) < MinSimilarityLen \/ Len(str2) < MinSimilarityLen
  THEN [num |-> 0, den |-> 1]
  ELSE LET longer  == IF Len(str1) > Len(str2) THEN str1 ELSE str2
           shorter == IF Len(str1) > Len(str2) THEN str2 ELSE str1
       IN  IF Len(longer) = 0 THEN [num |-> 1, den |-> 1]
           ELSE [num |-> Cardinality({i \in 1..Len(shorter) : longer[i] = shorter[i]}),
                 den |-> Len(longer)]

\* the threshold 0.7 of priority 4, as the fraction 7 / 10
SimilarityNum == 7
SimilarityDen == 10

aboveThreshold(q) == q.num * SimilarityDen > SimilarityNum * q.den

\* input.split(' ').filter(term => term.length > 2)
MinTermLen == 2

searchTermsOf(txt) ==
  filterLonger(split(toLowerCase(txt), " "), MinTermLen)

\* Priority 1: some search term equals the lower-cased title
priority1(info, searchTerms) ==
  LET title == toLowerCase(info.title)
  IN  \E k \in 1..Len(searchTerms) : title = searchTerms[k]

\* searchTerm.length > 4, the test of an earlier version
TitleTermLen_earlier == 4

\* searchTerm.length > 3 of priority 2
TitleTermLen == 3

\* Priority 2: the lower-cased title contains a search term longer than 3
priority2(info, searchTerms) ==
  LET title == toLowerCase(info.title)
  IN  \E k \in 1..Len(searchTerms) :
        includes(title, searchTerms[k]) /\ Len(searchTerms[k]) > TitleTermLen

\* the lower-cased tags without the null guard
tagsLower_unguarded(info) == toLowerCase(info.tags)

\* info.tags ? info.tags.toLowerCase() : ''
tagsLower(info) ==
  IF truthy(info.tags) THEN toLowerCase(info.tags) ELSE <<>>

\* Priority 3: a search term occurs in the lower-cased category or tags
priority3(info, searchTerms) ==
  LET category == toLowerCase(info.category)
      tags     == tagsLower(info)
  IN  \E k \in 1..Len(searchTerms) :
        includes(category, searchTerms[k]) \/ includes(tags, searchTerms[k])

\* the callback of priority 3 raises before it compares anything
raises3(info) ==
  toLowerCase(info.category) = TypeError \/ tagsLower(info) = TypeError

\* Priority 4: a word of the title overlaps a search term or is similar to it
priority4(info, searchTerms) ==
  LET titleWords == split(toLowerCase(info.title), " ")
  IN  \E k \in 1..Len(searchTerms) : \E w \in 1..Len(titleWords) :
        \/ includes(titleWords[w], searchTerms[k])
        \/ includes(searchTerms[k], titleWords[w])
        \/ aboveThreshold(calculateSimilarity(titleWords[w], searchTerms[k]))

\* healthInformation.find(...) of each priority: the first hit in table order
find1(table, searchTerms) ==
  LET hits == {i \in 1..Len(table) : priority1(table[i], searchTerms)}
  IN  IF hits = {} THEN None ELSE <<table[Min(hits)]>>

\* a find that keeps the last hit instead of the first
find2_last(table, searchTerms) ==
  LET hits == {i \in 1..Len(table) : priority2(table[i], searchTerms)}
  IN  IF hits = {} THEN None ELSE <<table[CHOOSE i \in hits : \A j \in hits : j <= i]>>

find2(table, searchTerms) ==
  LET hits == {i \in 1..Len(table) : priority2(table[i], searchTerms)}
  IN  IF hits = {} THEN None ELSE <<table[Min(hits)]>>

\* the find of priority 3 stops at the first element whose callback raises or hits
find3(table, searchTerms) ==
  LET stops == {i \in 1..Len(table) :
                  raises3(table[i]) \/ priority3(table[i], searchTerms)}
  IN  IF stops = {} \/ raises3(table[Min(stops)]) THEN None
      ELSE <<table[Min(stops)]>>

find3Raises(table, searchTerms) ==
  LET stops == {i \in 1..Len(table) :
                  raises3(table[i]) \/ priority3(table[i], searchTerms)}
  IN  stops # {} /\ raises3(table[Min(stops)])

find4(table, searchTerms) ==
  LET hits == {i \in 1..Len(table) : priority4(table[i], searchTerms)}
  IN  IF hits = {} THEN None ELSE <<table[Min(hits)]>>

\* one pass over the table that accepts a row on any of the first three
\* priorities, then a second pass for priority 4
searchIn_onePass(table, txt) ==
  LET searchTerms == searchTermsOf(txt)
      hits == {i \in 1..Len(table) :
                 \/ priority1(table[i], searchTerms)
                 \/ priority2(table[i], searchTerms)
                 \/ priority3(table[i], searchTerms)}
  IN  IF hits # {} THEN <<table[Min(hits)]>> ELSE find4(table, searchTerms)

\* searchHealthInformation over a table: None for null, <<info>> for a topic
searchIn(table, txt) ==
  LET searchTerms == searchTermsOf(txt)
      r1 == find1(table, searchTerms)
      r2 == IF r1 = None THEN find2(table, searchTerms) ELSE r1
      r3 == IF r2 = None THEN find3(table, searchTerms) ELSE r2
      r4 == IF r3 = None THEN find4(table, searchTerms) ELSE r3
  IN  r4

\* whether a callback of searchHealthInformation raises on this table
searchRaises(table, txt) ==
  LET searchTerms == searchTermsOf(txt)
  IN  /\ find1(table, searchTerms) = None
      /\ find2(table, searchTerms) = None
      /\ find3Raises(table, searchTerms)

searchHealthInformation(txt) == searchIn(healthInformation, txt)

-----------------------------------------------------------------------------
(* ChatBot.generateHealthResponse                                          *)

disclaimerLine ==
  <<"\n\n*Please remember that this is general health information. For personalized medical advice, always consult with a healthcare professional.*">>

\* the template of an earlier version: the description and the category
\* after a fixed lead, without the title and the tags
topicResponse_untitled(info) ==
  <<"Based on our health information database: ">> \o info.description
    \o <<"\n\nCategory: ">> \o info.category
    \o disclaimerLine

\* the template of a matched topic
topicResponse(info) ==
  <<"**">> \o info.title \o <<"**\n\n">> \o info.description
    \o <<"\n\n**Category:** ">> \o info.category
    \o (IF truthy(info.tags) THEN <<"\n**Related Topics:** ">> \o info.tags ELSE <<>>)
    \o disclaimerLine

\* the template of the disease-suggestion response
suggestionHead ==
  "I understand you're asking about a health condition. While I don't have specific information about \""

suggestionMid ==
  "\" in my database, I recommend:\n\n1. Consulting with a healthcare professional for accurate diagnosis and treatment\n2. Trying more specific search terms like: "

suggestionTail ==
  "\n3. Searching for the category of condition (e.g., \"heart disease\", \"skin condition\", \"respiratory illness\")\n\nPlease feel free to ask about specific symptoms or health topics!"

suggestionResponse(txt, suggestedTerms) ==
  <<suggestionHead>> \o txt \o <<suggestionMid>> \o suggestedTerms \o <<suggestionTail>>

exerciseKeywords ==
  << <<"e","x","e","r","c","i","s","e">>,
     <<"w","o","r","k","o","u","t">>,
     <<"f","i","t","n","e","s","s">> >>

dietKeywords ==
  << <<"d","i","e","t">>,
     <<"n","u","t","r","i","t","i","o","n">>,
     <<"f","o","o","d">> >>

sleepKeywords ==
  << <<"s","l","e","e","p">>,
     <<"t","i","r","e","d">>,
     <<"i","n","s","o","m","n","i","a">> >>

stressKeywords ==
  << <<"s","t","r","e","s","s">>,
     <<"a","n","x","i","e","t","y">>,
     <<"m","e","n","t","a","l"," ","h","e","a","l","t","h">> >>

\* input.includes(k1) || input.includes(k2) || input.includes(k3)
includesAny(txt, keywords) ==
  \E k \in 1..Len(keywords) : includes(txt, keywords[k])

exerciseResponse ==
  <<"Regular exercise is crucial for maintaining good health. It can improve cardiovascular health, strengthen muscles and bones, boost mental health, and help maintain a healthy weight. Aim for at least 150 minutes of moderate-intensity exercise per week. However, please consult with a healthcare provider before starting any new exercise program.">>

dietResponse ==
  <<"A balanced diet is essential for good health. Focus on eating a variety of fruits, vegetables, whole grains, lean proteins, and healthy fats. Stay hydrated by drinking plenty of water. Limit processed foods, added sugars, and excessive sodium. For personalized nutrition advice, consider consulting with a registered dietitian.">>

sleepResponse ==
  <<"Good sleep is vital for physical and mental health. Adults should aim for 7-9 hours of quality sleep per night. Establish a regular sleep schedule, create a comfortable sleep environment, and avoid screens before bedtime. If you're experiencing persistent sleep problems, consult with a healthcare provider.">>

stressResponse ==
  <<"Managing stress and maintaining mental health is crucial for overall well-being. Try relaxation techniques like deep breathing, meditation, or yoga. Regular exercise, adequate sleep, and social connections can also help. If you're experiencing persistent mental health concerns, please reach out to a mental health professional.">>

defaultResponse ==
  <<"I understand your health concern. Based on general medical knowledge, it's always best to maintain a healthy lifestyle with regular exercise, balanced nutrition, adequate sleep, and stress management. However, for specific medical advice or concerns, please consult with a qualified healthcare professional who can provide personalized guidance based on your individual health needs.">>

\* the same with the sleep group tested before the diet group
generateOn_sleepFirst(table, txt) ==
  IF searchRaises(table, txt) THEN TypeError
  ELSE
  LET found   == searchIn(table, txt)
      lowered == toLowerCase(txt)
  IN  IF found # None THEN topicResponse(found[1])
      ELSE IF isDiseaseQuery(lowered)
        THEN suggestionResponse(txt, getSuggestedDiseaseTerms(lowered))
      ELSE IF includesAny(lowered, exerciseKeywords) THEN exerciseResponse
      ELSE IF includesAny(lowered, sleepKeywords) THEN sleepResponse
      ELSE IF includesAny(lowered, dietKeywords) THEN dietResponse
      ELSE IF includesAny(lowered, stressKeywords) THEN stressResponse
      ELSE defaultResponse

\* generateHealthResponse over a table; TypeError when the search raised
generateOn(table, txt) ==
  IF searchRaises(table, txt) THEN TypeError
  ELSE
  LET found   == searchIn(table, txt)
      lowered == toLowerCase(txt)
  IN  IF found # None THEN topicResponse(found[1])
      ELSE IF isDiseaseQuery(lowered)
        THEN suggestionResponse(txt, getSuggestedDiseaseTerms(lowered))
      ELSE IF includesAny(lowered, exerciseKeywords) THEN exerciseResponse
      ELSE IF includesAny(lowered, dietKeywords) THEN dietResponse
      ELSE IF includesAny(lowered, sleepKeywords) THEN sleepResponse
      ELSE IF includesAny(lowered, stressKeywords) THEN stressResponse
      ELSE defaultResponse

generateHealthResponse(txt) == generateOn(healthInformation, txt)

-----------------------------------------------------------------------------
(* The inputs of the matcher: user texts and rows of health_information    *)

\* words a user text is made of (the empty word gives leading and double blanks)
Vocabulary ==
  { <<>>,
    <<"I">>,
    <<"D","i","a","b","e","t","e","s">>,
    <<"d","i","a">>,
    <<"d","i","e","t">>,
    <<"h","e","a","r","t">>,
    <<"x","y","z","z","y">> }

\* the longest user text, in words
MaxWords == 2

\* the longest topic table, in rows
MaxTopics == 2

WordLists == UNION {[1..n -> Vocabulary] : n \in 1..MaxWords}

\* the scenarios of the specification's testable properties, and a term of
\* four characters that is part of a title
ScenarioTexts ==
  { <<"c","a","r","e">>,
    <<"c","a","r","d","i","o","l","o","g","y">>,
    <<"I"," ","h","a","v","e"," ","d","i","a","b","e","t","e","s">>,
    <<"w","h","a","t"," ","a","b","o","u","t"," ","m","y"," ","d","i","e","t">>,
    <<"x","y","z","z","y"," ","p","l","u","g","h">>,
    <<"a","n","x","i","e","t","y">>,
    <<"x","y","z","z","y"," ","p","a","i","n">>,
    <<"f","o","o","d"," ","a","n","d"," ","s","l","e","e","p">>,
    <<"M","y"," ","W","o","r","k","o","u","t">>,
    <<"t","i","r","e","d">>,
    <<"m","e","n","t","a","l"," ","h","e","a","l","t","h">> }

UserTexts == {join(ws, <<" ">>) : ws \in WordLists} \cup ScenarioTexts

\* rows of the health_information table: title, description and category are
\* present, tags may be null or empty
Topics ==
  { [id |-> "t1", title |-> <<"D","i","a","b","e","t","e","s">>,
     description |-> <<"Managing blood sugar.">>,
     category |-> <<"E","n","d","o","c","r","i","n","e">>,
     tags |-> <<"b","l","o","o","d"," ","s","u","g","a","r",","," ","i","n","s","u","l","i","n">>],
    [id |-> "t2", title |-> <<"H","e","a","r","t"," ","D","i","s","e","a","s","e">>,
     description |-> <<"Keep your heart healthy.">>,
     category |-> <<"C","a","r","d","i","o">>,
     tags |-> Null],
    [id |-> "t3", title |-> <<"D","i","a","b","e","t","e","s"," ","C","a","r","e">>,
     description |-> <<"Daily care.">>,
     category |-> <<"L","i","f","e","s","t","y","l","e">>,
     tags |-> <<>>],
    [id |-> "t4", title |-> <<"F","l","u">>,
     description |-> <<"Seasonal flu.">>,
     category |-> <<"d","i","a","b","e","t","e","s"," ","t","y","p","e","s">>,
     tags |-> Null],
    [id |-> "t5", title |-> <<"D","i","a","b","e","t","e","z">>,
     description |-> <<"A misspelled row.">>,
     category |-> <<"M","i","s","c">>,
     tags |-> <<"D","i","e","t","s">>] }

Tables == UNION {[1..n -> Topics] : n \in 0..MaxTopics}

\* useState<HealthInfo[]>([]) before loadHealthInformation has run
MatcherInit ==
  /\ healthInformation = <<>>
  /\ healthLoad = "pending"
  /\ asked = Null
  /\ seenTable = <<>>
  /\ relevantInfo = None
  /\ response = Null

\* loadHealthInformation: the select settles with rows, or with an error that
\* is logged and leaves the table as it is
loadHealthInformation ==
  /\ healthLoad = "pending"
  /\ healthLoad' = "done"
  /\ \/ \E data \in Tables : healthInformation' = data
     \/ healthInformation' = healthInformation
  /\ UNCHANGED <<asked, seenTable, relevantInfo, response>>
  /\ UNCHANGED notMatcher

\* generateHealthResponse(userInput) is called once with a user text
Respond ==
  /\ asked = Null
  /\ \E txt \in UserTexts :
       /\ asked' = txt
       /\ seenTable' = healthInformation
       /\ relevantInfo' = searchHealthInformation(txt)
       /\ response' = generateHealthResponse(txt)
  /\ UNCHANGED <<healthInformation, healthLoad>>
  /\ UNCHANGED notMatcher

MatcherNext == loadHealthInformation \/ Respond

-----------------------------------------------------------------------------
(* VoiceRecorder, the platform under it, and the voice handlers of ChatBot *)

\* handleStartRecording invocations; each one's startRecording call asks for
\* one stream and builds at most one MediaRecorder, both numbered like it
MaxSessions == 2

\* dataavailable notifications that carry data, over all recorders
MaxChunks == 2

Sessions == 1..MaxSessions

\* the unit of the sizes of the blobs a dataavailable notification carries:
\* the n-th chunk with data of a recorder has n units, so that a chunk's size
\* tells which one it is; a notification may also carry an empty blob
ChunkUnit == 100

\* the blob of a dataavailable event of recorder r
chunkOf(r, withData) ==
  [rec |-> r, size |-> IF withData THEN ChunkUnit * (delivered[r] + 1) ELSE 0]

\* the chunks with data recorder r has been handed, in arrival order
deliveredTo(r) == [n \in 1..delivered[r] |-> [rec |-> r, size |-> ChunkUnit * n]]

\* the preference list of startRecording
mimeTypes == <<"audio/webm;codecs=opus", "audio/webm", "audio/mp4", "audio/mpeg">>

\* what MediaRecorder.isTypeSupported may accept on a platform
SupportSets == {Range(mimeTypes), {"audio/mp4", "audio/mpeg"}, {}}

\* the loop without its break: the last supported entry
selectedMimeType_last ==
  LET ok == {i \in 1..Len(mimeTypes) : mimeTypes[i] \in supportedTypes}
  IN  IF ok = {} THEN "" ELSE mimeTypes[CHOOSE i \in ok : \A j \in ok : j <= i]

\* the loop over mimeTypes: the first supported entry, "" when there is none
selectedMimeType ==
  LET ok == {i \in 1..Len(mimeTypes) : mimeTypes[i] \in supportedTypes}
  IN  IF ok = {} THEN "" ELSE mimeTypes[Min(ok)]

\* the messages of the errors VoiceRecorder raises
deniedMessage ==
  <<"Microphone access denied. Please allow microphone permissions and try again.">>

notFoundMessage ==
  <<"No microphone found. Please connect a microphone and try again.">>

failedMessage(cause) == <<"Failed to access microphone: ", cause>>

notRecordingMessage == <<"No recording in progress">>

\* the message of the error startRecording throws when no type is supported
noFormatMessage == "No supported audio format found"

\* the catch block of startRecording: the error it raises for what it caught
startError(caught) ==
  IF caught = "NotAllowedError" THEN deniedMessage
  ELSE IF caught = "NotFoundError" THEN notFoundMessage
  ELSE failedMessage(caught)

\* new Blob(this.audioChunks, {type: this.mediaRecorder?.mimeType || 'audio/webm'})
RECURSIVE sumOf(_)
sumOf(sizes) == IF Len(sizes) = 0 THEN 0 ELSE sizes[1] + sumOf(Tail(sizes))

sizesOf(chunks) == [n \in 1..Len(chunks) |-> chunks[n].size]

newBlob(chunks, rec) ==
  [parts |-> chunks,
   size  |-> sumOf(sizesOf(chunks)),
   type  |-> IF rec # 0 /\ recMime[rec] # "" THEN recMime[rec] ELSE "audio/webm"]

NoBlob == [parts |-> <<>>, size |-> 0, type |-> ""]

\* the state after construction: useState and useRef initial values, the
\* field initialisers of VoiceRecorder, and a platform that has done nothing
VoiceStart(sup) ==
  /\ isRecording = FALSE
  /\ isProcessingAudio = FALSE
  /\ microphoneError = Null
  /\ recordingTimerRef = 0
  /\ activeTimers = {}
  /\ mediaRecorder = 0
  /\ stream = 0
  /\ audioChunks = <<>>
  /\ recState = [r \in Sessions |-> "none"]
  /\ recMime = [r \in Sessions |-> ""]
  /\ onstop = [r \in Sessions |-> 0]
  /\ stopQueued = [r \in Sessions |-> FALSE]
  /\ acquired = {}
  /\ trackStops = [r \in Sessions |-> 0]
  /\ delivered = [r \in Sessions |-> 0]
  /\ startPc = [h \in Sessions |-> "unused"]
  /\ startCaught = [h \in Sessions |-> ""]
  /\ startThrown = [h \in Sessions |-> Null]
  /\ stopCalls = 0
  /\ stopPc = "idle"
  /\ stopRec = 0
  /\ stopResult = "none"
  /\ audioBlob = NoBlob
  /\ supportedTypes = sup

VoiceInit == \E sup \in SupportSets : VoiceStart(sup)

VoiceParked == VoiceStart(Range(mimeTypes))

InputInit == input = <<>>

\* no helper function has been called on its own
CallInit == called = "" /\ args = <<>> /\ result = Null

\* the component has been mounted and not torn down
\* the call stopRecording() the teardown makes: nothing awaits its promise
teardownCall == -1

\* a call stopRecording() made on the recorder object by another caller
directCall == -2

\* the stopRecording calls: those of handleStopRecording by number, the
\* teardown's, and the direct one
StopCallIds == (1..MaxSessions) \cup {teardownCall, directCall}

noPromise == [state |-> "none", rec |-> 0]

\* new Promise(...) of stopRecording for a call on recorder r
promiseFor(call, r, state) ==
  [stopPromises EXCEPT ![call] = [state |-> state, rec |-> r]]

\* resolve(audioBlob) in onstop: settles the promise of the call that
\* installed the handler, when it is still pending
resolveBy(handler) ==
  IF handler \in StopCallIds /\ stopPromises[handler].state = "pending"
  THEN [stopPromises EXCEPT ![handler].state = "resolved"]
  ELSE stopPromises

LifeInit ==
  /\ mounted = TRUE
  /\ tornDown = 0
  /\ stopPromises = [c \in StopCallIds |-> noPromise]

\* the invocations begun so far
startsBegun == Cardinality({h \in Sessions : startPc[h] # "unused"})

chunksDelivered == sumOf(delivered)

\* the microphone button is rendered enabled (disabled={isTyping || isProcessingAudio})
micEnabled == mounted /\ ~isTyping /\ ~isProcessingAudio

\* handleStartRecording up to getUserMedia: the button was clicked while the
\* recording flag was clear.  checkMicrophonePermissions only logs its answer,
\* so the handler waits for the stream whatever that answer is.
ClickStart ==
  /\ micEnabled /\ ~isRecording
  /\ startsBegun < MaxSessions
  /\ LET h == startsBegun + 1
     IN  startPc' = [startPc EXCEPT ![h] = "awaitMedia"]
  /\ microphoneError' = Null
  /\ isRecording' = TRUE
  /\ UNCHANGED <<startCaught, startThrown>>
  /\ UNCHANGED <<input, isProcessingAudio, recordingTimerRef, activeTimers,
                 mediaRecorder, stream, audioChunks, recState, recMime, onstop,
                 stopQueued, acquired, trackStops, delivered, stopCalls, stopPc, stopRec,
                 stopResult, audioBlob, supportedTypes>>
  /\ UNCHANGED notVoice

\* startRecording throws the error its catch block makes of what it caught;
\* the catch block of handleStartRecording shows its message
startFailed(h, caught) ==
  /\ startPc' = [startPc EXCEPT ![h] = "failed"]
  /\ startCaught' = [startCaught EXCEPT ![h] = caught]
  /\ startThrown' = [startThrown EXCEPT ![h] = startError(caught)]
  /\ isRecording' = FALSE
  /\ microphoneError' = startError(caught)
  /\ UNCHANGED <<recordingTimerRef, activeTimers>>

\* getUserMedia rejects: startRecording raises its own error for it
MediaRejected(h, caught) ==
  /\ startPc[h] = "awaitMedia"
  /\ startFailed(h, caught)
  /\ UNCHANGED <<input, isProcessingAudio, mediaRecorder, stream, audioChunks,
                 recState, recMime, onstop, stopQueued, acquired, trackStops,
                 delivered, stopCalls, stopPc, stopRec, stopResult, audioBlob, supportedTypes>>
  /\ UNCHANGED notVoice

\* getUserMedia resolves with stream h; the rest of startRecording runs, and
\* then the rest of handleStartRecording.  The platform may refuse to start
\* the recorder.
MediaGranted(h, platform) ==
  /\ startPc[h] = "awaitMedia"
  /\ stream' = h
  /\ acquired' = acquired \cup {h}
  /\ IF selectedMimeType = ""
     THEN /\ startFailed(h, noFormatMessage)
          /\ UNCHANGED <<mediaRecorder, audioChunks, recState, recMime>>
     ELSE /\ mediaRecorder' = h
          /\ recMime' = [recMime EXCEPT ![h] = selectedMimeType]
          /\ audioChunks' = <<>>
          /\ IF platform = "startThrows"
             THEN /\ recState' = [recState EXCEPT ![h] = "inactive"]
                  /\ startFailed(h, "InvalidStateError")
             ELSE /\ recState' = [recState EXCEPT ![h] = "recording"]
                  /\ startPc' = [startPc EXCEPT ![h] = "done"]
                  /\ recordingTimerRef' = h
                  /\ activeTimers' = activeTimers \cup {h}
                  /\ UNCHANGED <<isRecording, microphoneError, startCaught, startThrown>>
  /\ UNCHANGED <<input, isProcessingAudio, onstop, stopQueued, trackStops,
                 delivered, stopCalls, stopPc, stopRec, stopResult, audioBlob, supportedTypes>>
  /\ UNCHANGED notVoice

\* ondataavailable of recorder r while it records: a chunk with data is pushed
\* onto this.audioChunks, an empty one is dropped
DataAvailable(r, withData) ==
  /\ recState[r] = "recording"
  /\ withData => chunksDelivered < MaxChunks
  /\ delivered' = [delivered EXCEPT ![r] = IF withData THEN @ + 1 ELSE @]
  /\ audioChunks' = IF chunkOf(r, withData).size > 0
                    THEN Append(audioChunks, chunkOf(r, withData)) ELSE audioChunks
  /\ UNCHANGED <<input, isRecording, isProcessingAudio, microphoneError,
                 recordingTimerRef, activeTimers, mediaRecorder, stream, recState,
                 recMime, onstop, stopQueued, acquired, trackStops, startPc, startCaught, startThrown, stopCalls,
                 stopPc, stopRec, stopResult, audioBlob, supportedTypes>>
  /\ UNCHANGED notVoice

\* the platform reports an error on a recording recorder: onerror logs it, the
\* recorder goes inactive and its stop notification is queued
RecorderError(r) ==
  /\ recState[r] = "recording"
  /\ recState' = [recState EXCEPT ![r] = "inactive"]
  /\ stopQueued' = [stopQueued EXCEPT ![r] = TRUE]
  /\ UNCHANGED <<input, isRecording, isProcessingAudio, microphoneError,
                 recordingTimerRef, activeTimers, mediaRecorder, stream, audioChunks,
                 recMime, onstop, acquired, trackStops, delivered, startPc, startCaught, startThrown, stopCalls, stopPc,
                 stopRec, stopResult, audioBlob, supportedTypes>>
  /\ UNCHANGED notVoice


\* VoiceRecorder.cleanup: every track of this.stream is stopped
cleanupTrackStops ==
  IF stream # 0 THEN [trackStops EXCEPT ![stream] = @ + 1] ELSE trackStops

\* the catch and finally blocks of handleStopRecording
stopFailed(why) ==
  /\ stopResult' = why
  /\ audioBlob' = NoBlob
  /\ stopPc' = "idle"
  /\ isProcessingAudio' = FALSE

\* handleStopRecording up to its first await: the button was clicked while the
\* recording flag was set.  stopRecording rejects when mediaRecorder is null;
\* otherwise it installs onstop and calls stop(), which a platform ignores
\* or answers with InvalidStateError when the recorder is inactive.  The
\* button is disabled until the handler's finally block has run, so the
\* invocations follow one another and stopCalls numbers them.
ClickStop(platform) ==
  /\ micEnabled /\ isRecording
  /\ isRecording' = FALSE
  /\ recordingTimerRef' = 0
  /\ activeTimers' = IF recordingTimerRef # 0
                     THEN activeTimers \ {recordingTimerRef} ELSE activeTimers
  /\ stopCalls' = stopCalls + 1
  /\ stopRec' = mediaRecorder
  /\ LET r == mediaRecorder
     IN  IF r = 0
         THEN /\ stopFailed("NotRecording")
              /\ stopPromises' = promiseFor(stopCalls', 0, "rejected")
              /\ UNCHANGED <<onstop, recState, stopQueued>>
         ELSE /\ onstop' = [onstop EXCEPT ![r] = stopCalls']
              /\ IF recState[r] = "recording"
                 THEN /\ recState' = [recState EXCEPT ![r] = "inactive"]
                      /\ stopQueued' = [stopQueued EXCEPT ![r] = TRUE]
                      /\ stopPromises' = promiseFor(stopCalls', r, "pending")
                      /\ stopPc' = "awaitStop"
                      /\ stopResult' = "pending"
                      /\ audioBlob' = NoBlob
                      /\ isProcessingAudio' = TRUE
                 ELSE IF platform = "stopThrows"
                 THEN /\ stopFailed("InvalidStateError")
                      /\ stopPromises' = promiseFor(stopCalls', r, "rejected")
                      /\ UNCHANGED <<recState, stopQueued>>
                 ELSE /\ stopPc' = "awaitStop"
                      /\ stopPromises' = promiseFor(stopCalls', r, "pending")
                      /\ stopResult' = "pending"
                      /\ audioBlob' = NoBlob
                      /\ isProcessingAudio' = TRUE
                      /\ UNCHANGED <<recState, stopQueued>>
  /\ UNCHANGED <<input, microphoneError, mediaRecorder, stream, audioChunks, recMime,
                 acquired, trackStops, delivered, startPc, startCaught, startThrown, supportedTypes>>
  /\ UNCHANGED <<matcherVars, chatVars, callVars, authVars, mounted, tornDown>>

\* the platform's stop notification for recorder r: the last dataavailable,
\* then onstop.  The handler stopRecording installed builds the blob from
\* this.audioChunks, runs cleanup and resolves; handleStopRecording goes on to
\* convertBlobToBase64.
StopNotification(r, withData) ==
  /\ stopQueued[r]
  /\ withData => chunksDelivered < MaxChunks
  /\ stopQueued' = [stopQueued EXCEPT ![r] = FALSE]
  /\ delivered' = [delivered EXCEPT ![r] = IF withData THEN @ + 1 ELSE @]
  /\ stopPromises' = resolveBy(onstop[r])
  /\ LET chunks == IF chunkOf(r, withData).size > 0
                   THEN Append(audioChunks, chunkOf(r, withData)) ELSE audioChunks
     IN  IF onstop[r] = 0
         THEN /\ audioChunks' = chunks
              /\ UNCHANGED <<mediaRecorder, stream, trackStops, stopResult, audioBlob,
                             stopPc>>
         ELSE /\ trackStops' = cleanupTrackStops
              /\ stream' = 0
              /\ mediaRecorder' = 0
              /\ audioChunks' = <<>>
              /\ IF onstop[r] = stopCalls /\ stopResult = "pending"
                 THEN /\ stopResult' = "resolved"
                      /\ audioBlob' = newBlob(chunks, mediaRecorder)
                      /\ stopPc' = "awaitConvert"
                 ELSE UNCHANGED <<stopResult, audioBlob, stopPc>>
  /\ UNCHANGED <<input, isRecording, isProcessingAudio, microphoneError,
                 recordingTimerRef, activeTimers, recState, recMime, onstop, acquired,
                 startPc, startCaught, startThrown, stopCalls, stopRec, supportedTypes>>
  /\ UNCHANGED <<matcherVars, chatVars, callVars, authVars, mounted, tornDown>>

\* convertBlobToBase64 settles: the text goes to the speech-to-text function,
\* a read error is caught
ConvertSettles(ok) ==
  /\ stopPc = "awaitConvert"
  /\ audioBlob' = NoBlob
  /\ IF ok
     THEN /\ stopPc' = "awaitStt"
          /\ UNCHANGED isProcessingAudio
     ELSE /\ stopPc' = "idle"
          /\ isProcessingAudio' = FALSE
  /\ UNCHANGED <<input, isRecording, microphoneError, recordingTimerRef, activeTimers,
                 mediaRecorder, stream, audioChunks, recState, recMime, onstop,
                 stopQueued, acquired, trackStops, delivered, startPc, startCaught, startThrown, stopCalls,
                 stopRec, stopResult, supportedTypes>>
  /\ UNCHANGED notVoice

\* what supabase.functions.invoke('speech-to-text') may answer: an error, a
\* transcript, or no transcript
SttOutcomes == {"error", "text", "noText"}

\* the transcript of a recognised recording
Transcript == <<"h","i">>

\* the speech-to-text call settles; the rest of handleStopRecording runs,
\* through its finally block
SttSettles(outcome) ==
  /\ stopPc = "awaitStt"
  /\ stopPc' = "idle"
  /\ input' = IF outcome = "text" THEN Transcript ELSE input
  /\ isProcessingAudio' = FALSE
  /\ UNCHANGED <<isRecording, microphoneError, recordingTimerRef, activeTimers,
                 mediaRecorder, stream, audioChunks, recState, recMime, onstop,
                 stopQueued, acquired, trackStops, delivered, startPc, startCaught, startThrown, stopCalls,
                 stopRec, stopResult, audioBlob, supportedTypes>>
  /\ UNCHANGED notVoice

\* the cleanup function of the recorder effect, run when the component is
\* unmounted: a recorder that is recording is stopped through stopRecording,
\* whose promise nobody awaits, and a running interval is cleared.  Clicks end
\* here; what the platform still owes the handlers arrives all the same.
Teardown ==
  /\ mounted
  /\ mounted' = FALSE
  /\ LET r == mediaRecorder
     IN  IF r # 0 /\ recState[r] = "recording"
         THEN /\ tornDown' = r
              /\ onstop' = [onstop EXCEPT ![r] = teardownCall]
              /\ recState' = [recState EXCEPT ![r] = "inactive"]
              /\ stopQueued' = [stopQueued EXCEPT ![r] = TRUE]
              /\ stopPromises' = promiseFor(teardownCall, r, "pending")
         ELSE UNCHANGED <<tornDown, onstop, recState, stopQueued, stopPromises>>
  /\ activeTimers' = IF recordingTimerRef # 0
                     THEN activeTimers \ {recordingTimerRef} ELSE activeTimers
  /\ UNCHANGED <<input, isRecording, isProcessingAudio, microphoneError,
                 recordingTimerRef, mediaRecorder, stream, audioChunks, recMime,
                 acquired, trackStops, delivered, startPc, startCaught, startThrown, stopCalls, stopPc, stopRec,
                 stopResult, audioBlob, supportedTypes>>
  /\ UNCHANGED <<matcherVars, chatVars, callVars, authVars>>

\* VoiceRecorder.stopRecording called on the recorder object by a caller
\* other than handleStopRecording, at any moment: it rejects when
\* mediaRecorder is null; otherwise it sets onstop, replacing a handler an
\* earlier call installed, and calls stop()
StopRecordingCall(platform) ==
  /\ stopPromises[directCall].state = "none"
  /\ LET r == mediaRecorder
     IN  IF r = 0
         THEN /\ stopPromises' = promiseFor(directCall, 0, "rejected")
              /\ UNCHANGED <<onstop, recState, stopQueued>>
         ELSE /\ onstop' = [onstop EXCEPT ![r] = directCall]
              /\ IF recState[r] = "recording"
                 THEN /\ recState' = [recState EXCEPT ![r] = "inactive"]
                      /\ stopQueued' = [stopQueued EXCEPT ![r] = TRUE]
                      /\ stopPromises' = promiseFor(directCall, r, "pending")
                 ELSE /\ stopPromises' =
                           promiseFor(directCall, r,
                                      IF platform = "stopThrows"
                                      THEN "rejected" ELSE "pending")
                      /\ UNCHANGED <<recState, stopQueued>>
  /\ UNCHANGED <<input, isRecording, isProcessingAudio, microphoneError,
                 recordingTimerRef, activeTimers, mediaRecorder, stream, audioChunks,
                 recMime, acquired, trackStops, delivered, startPc, startCaught,
                 startThrown, stopCalls, stopPc, stopRec, stopResult, audioBlob,
                 supportedTypes>>
  /\ UNCHANGED <<matcherVars, chatVars, callVars, authVars, mounted, tornDown>>

VoiceNext ==
  \/ ClickStart
  \/ \E h \in Sessions :
       \E caught \in {"NotAllowedError", "NotFoundError", "AbortError"} :
         MediaRejected(h, caught)
  \/ \E h \in Sessions :
       \E platform \in {"ok", "startThrows"} :
         MediaGranted(h, platform)
  \/ \E r \in Sessions : \E withData \in BOOLEAN : DataAvailable(r, withData)
  \/ \E r \in Sessions : RecorderError(r)
  \/ \E platform \in {"stopIgnored", "stopThrows"} : ClickStop(platform)
  \/ \E r \in Sessions : \E withData \in BOOLEAN : StopNotification(r, withData)
  \/ \E ok \in BOOLEAN : ConvertSettles(ok)
  \/ \E outcome \in SttOutcomes : SttSettles(outcome)

-----------------------------------------------------------------------------
(* The conversation: handleSend, the account, the stored history *)

\* handleSend invocations that get past the blank-input test
MaxSends == 2

\* setUser calls made by getUser and by the onAuthStateChange callback
MaxAuthEvents == 2

\* Date.now() at construction
StartTime == 1000

\* the clock is followed millisecond by millisecond for MaxFastTicks ticks
\* after each of the moments StartTime + n * TimerDelay
MaxFastTicks == 2

\* the delay handleSend passes to setTimeout
TimerDelay == 1500

Sends == 1..MaxSends

\* the one account that signs in
Accounts == {1}

\* Number.prototype.toString of a non-negative integer
Digits == <<"0", "1", "2", "3", "4", "5", "6", "7", "8", "9">>

RECURSIVE toString(_)
toString(n) ==
  IF n < 10 THEN <<Digits[n + 1]>>
  ELSE toString(n \div 10) \o <<Digits[(n % 10) + 1]>>

\* String.prototype.trim
WhiteSpace == {" ", "\t", "\n"}

RECURSIVE trimStart(_)
trimStart(s) ==
  IF Len(s) > 0 /\ s[1] \in WhiteSpace THEN trimStart(Tail(s)) ELSE s

RECURSIVE trimEnd(_)
trimEnd(s) ==
  IF Len(s) > 0 /\ s[Len(s)] \in WhiteSpace
  THEN trimEnd([n \in 1..(Len(s) - 1) |-> s[n]]) ELSE s

trim(s) == trimEnd(trimStart(s))

\* what the user types into the input field
ChatTexts == {<<" ">>, <<"h", "i", " ">>}

greetingText ==
  <<"Hello! I'm your AI healthcare assistant. How can I help you today?">>

\* the initial message; `of` is bookkeeping: the handleSend invocation a
\* message belongs to, 0 for the greeting
initialMessage == [id |-> <<"1">>, text |-> greetingText, isBot |-> TRUE, of |-> 0]

\* the key chat_conversations gives the n-th row; the insert sends none
rowId(n) == <<"row-">> \o toString(n)

\* the row saveMessageToDatabase inserts for a message
rowOf(message, n) ==
  [id |-> rowId(n), message |-> message.text, is_bot |-> message.isBot,
   of |-> message.of]

insert(rows, message) == Append(rows, rowOf(message, Len(rows) + 1))

\* data.map(...) of loadChatHistory
loadedMessages(rows) ==
  [n \in 1..Len(rows) |->
     [id |-> rows[n].id, text |-> rows[n].message, isBot |-> rows[n].is_bot,
      of |-> rows[n].of]]

\* a variant that sets the message in place of the log
appendMessage_replace(log, message) == <<message>>

\* setMessages(prev => [...prev, message])
appendMessage(log, message) == Append(log, message)

\* the messages handleSend builds
userMessage(k) ==
  [id |-> toString(now), text |-> input, isBot |-> FALSE, of |-> k]

botResponse(k) ==
  [id |-> toString(now + 1), text |-> generateHealthResponse(sendText[k]),
   isBot |-> TRUE, of |-> k]

\* a variant that awaits nothing: the timer is set at once, signed in or not
afterAppend_noAwait(u) == "waiting"

\* what handleSend does after appending the user message: with a user it
\* awaits saveMessageToDatabase before it sets the timer
afterAppend(u) == IF u # 0 THEN "saving" ELSE "waiting"

\* the conversation before any send: the greeting is in the log, put there by
\* the [user] effect at mount when no account is signed in (u = 0), or by
\* loadChatHistory, which also stored it, when account u signed in to an empty
\* history
ChatStart(u) ==
  /\ messages = <<initialMessage>>
  /\ isTyping = FALSE
  /\ user = u
  /\ now = StartTime
  /\ lastChange = 0
  /\ db = IF u = 0 THEN <<>> ELSE insert(<<>>, initialMessage)
  /\ sendPc = [k \in Sends |-> "unused"]
  /\ lastSend = "none"
  /\ sendUser = [k \in Sends |-> 0]
  /\ sendText = [k \in Sends |-> <<>>]
  /\ sendDue = [k \in Sends |-> 0]
  /\ saveDone = {}
  /\ authEvents = 0
  /\ loadsPending = 0
  /\ greetingSaves = 0

\* the state after construction and the mount effects
ChatInit == ChatStart(0)

sendsBegun == Cardinality({k \in Sends : sendPc[k] # "unused"})

\* the input field is rendered enabled (disabled={isRecording || isProcessingAudio})
inputEnabled == mounted /\ ~isRecording /\ ~isProcessingAudio

\* the send button is rendered enabled
\* (disabled={!input.trim() || isTyping || isRecording || isProcessingAudio})
sendEnabled ==
  mounted /\ trim(input) # <<>> /\ ~isTyping /\ ~isRecording /\ ~isProcessingAudio

\* onChange of the input field: a text is put into the empty field, at least
\* a millisecond after the field was last changed or cleared
SetInput(txt) ==
  /\ inputEnabled
  /\ input = <<>>
  /\ now > lastChange
  /\ input' = txt
  /\ lastChange' = now
  /\ UNCHANGED <<messages, isTyping, user, now, db, sendPc, lastSend, sendUser, sendText, sendDue,
                 saveDone, authEvents, loadsPending, greetingSaves>>
  /\ UNCHANGED notChat

\* a variant of the test that lets a text of blanks through
isBlank_emptyOnly(txt) == txt = <<>>

\* !input.trim()
isBlank(txt) == trim(txt) = <<>>

\* handleSend up to its first await
handleSend ==
  /\ IF isBlank(input)
     THEN /\ lastSend' = "ignored"
          /\ UNCHANGED <<input, messages, isTyping, user, now, lastChange, db, sendPc,
                         sendUser, sendText, sendDue, saveDone, authEvents,
                         loadsPending, greetingSaves>>
     ELSE /\ sendsBegun < MaxSends
          /\ lastSend' = "accepted"
          /\ LET k == sendsBegun + 1
             IN  /\ messages' = appendMessage(messages, userMessage(k))
                 /\ sendText' = [sendText EXCEPT ![k] = input]
                 /\ sendUser' = [sendUser EXCEPT ![k] = user]
                 /\ sendPc' = [sendPc EXCEPT ![k] = afterAppend(user)]
                 /\ sendDue' = [sendDue EXCEPT ![k] =
                       IF afterAppend(user) = "waiting" THEN now + TimerDelay ELSE 0]
          /\ input' = <<>>
          /\ lastChange' = now
          /\ isTyping' = TRUE
          /\ UNCHANGED <<user, now, db, saveDone, authEvents, loadsPending,
                         greetingSaves>>
  /\ UNCHANGED notChat

\* handleKeyPress with the Enter key in the input field
handleKeyPress ==
  /\ inputEnabled
  /\ handleSend

\* a click on the send button
ClickSend ==
  /\ sendEnabled
  /\ handleSend

\* a variant in which the error of a failed insert leaves
\* saveMessageToDatabase and ends handleSend
afterSave_rethrows(ok) == IF ok THEN "waiting" ELSE "aborted"

\* where handleSend stands when saveMessageToDatabase has returned: the try
\* block catches a failed insert, so it goes on to set the timer either way
afterSave(ok) == "waiting"

\* saveMessageToDatabase(userMessage) returns, the row inserted or the error
\* caught; handleSend sets the timer
UserSaveSettles(k, ok) ==
  /\ sendPc[k] = "saving"
  /\ db' = IF ok
           THEN insert(db, [text |-> sendText[k], isBot |-> FALSE, of |-> k])
           ELSE db
  /\ saveDone' = saveDone \cup {k}
  /\ sendPc' = [sendPc EXCEPT ![k] = afterSave(ok)]
  /\ sendDue' = [sendDue EXCEPT ![k] =
        IF afterSave(ok) = "waiting" THEN now + TimerDelay ELSE @]
  /\ UNCHANGED <<input, messages, isTyping, user, now, lastChange, sendUser, sendText, lastSend,
                 authEvents, loadsPending, greetingSaves>>
  /\ UNCHANGED notChat

\* the setTimeout callback of invocation k runs, up to its await
TimerFires(k) ==
  /\ sendPc[k] = "waiting"
  /\ now >= sendDue[k]
  /\ messages' = appendMessage(messages, botResponse(k))
  /\ isTyping' = FALSE
  /\ sendPc' = [sendPc EXCEPT ![k] = IF sendUser[k] # 0 THEN "botSaving" ELSE "done"]
  /\ UNCHANGED <<input, user, now, lastChange, db, sendUser, sendText, lastSend, sendDue, saveDone,
                 authEvents, loadsPending, greetingSaves>>
  /\ UNCHANGED notChat

\* saveMessageToDatabase(botResponse) returns
BotSaveSettles(k, ok) ==
  /\ sendPc[k] = "botSaving"
  /\ db' = IF ok
           THEN insert(db, [text |-> generateHealthResponse(sendText[k]),
                            isBot |-> TRUE, of |-> k])
           ELSE db
  /\ sendPc' = [sendPc EXCEPT ![k] = "done"]
  /\ UNCHANGED <<input, messages, isTyping, user, now, lastChange, sendUser, sendText, lastSend, sendDue,
                 saveDone, authEvents, loadsPending, greetingSaves>>
  /\ UNCHANGED notChat

\* a timer is set and not yet due
timerPending == \E k \in Sends : sendPc[k] = "waiting" /\ now < sendDue[k]

\* time passes: a millisecond, or the delay of a pending timer
Advance(d) ==
  /\ IF d = 1
     THEN (now - StartTime) % TimerDelay < MaxFastTicks
     ELSE timerPending
  /\ now' = now + d
  /\ UNCHANGED <<input, messages, isTyping, user, lastChange, db, sendPc, lastSend, sendUser,
                 sendText, sendDue, saveDone, authEvents, loadsPending, greetingSaves>>
  /\ UNCHANGED notChat

\* getUser resolves or onAuthStateChange calls back: setUser, then the [user]
\* effect.  A session brings a new user object each time, so the effect runs
\* and calls loadChatHistory; without a session it puts the greeting back.
AuthChange(u) ==
  /\ authEvents < MaxAuthEvents
  /\ ~(u = 0 /\ user = 0)
  /\ authEvents' = authEvents + 1
  /\ user' = u
  /\ IF u = 0
     THEN /\ messages' = <<initialMessage>>
          /\ UNCHANGED loadsPending
     ELSE /\ loadsPending' = loadsPending + 1
          /\ UNCHANGED messages
  /\ UNCHANGED <<input, isTyping, now, lastChange, db, sendPc, lastSend, sendUser, sendText, sendDue,
                 saveDone, greetingSaves>>
  /\ UNCHANGED notChat

\* the select of loadChatHistory settles; the rest of loadChatHistory runs up
\* to its await
LoadSettles(ok) ==
  /\ loadsPending > 0
  /\ loadsPending' = loadsPending - 1
  /\ IF ~ok
     THEN UNCHANGED <<messages, greetingSaves>>
     ELSE IF Len(db) > 0
     THEN /\ messages' = loadedMessages(db)
          /\ UNCHANGED greetingSaves
     ELSE /\ messages' = <<initialMessage>>
          /\ greetingSaves' = greetingSaves + 1
  /\ UNCHANGED <<input, isTyping, user, now, lastChange, db, sendPc, lastSend, sendUser, sendText, sendDue,
                 saveDone, authEvents>>
  /\ UNCHANGED notChat

\* saveMessageToDatabase(initialMessage) returns
GreetingSaveSettles(ok) ==
  /\ greetingSaves > 0
  /\ greetingSaves' = greetingSaves - 1
  /\ db' = IF ok THEN insert(db, initialMessage) ELSE db
  /\ UNCHANGED <<input, messages, isTyping, user, now, lastChange, sendPc, lastSend, sendUser, sendText,
                 sendDue, saveDone, authEvents, loadsPending>>
  /\ UNCHANGED notChat

\* sends from the keyboard and the button, the account fixed, time in steps
\* of the timer delay
ChatNext ==
  \/ \E txt \in ChatTexts : SetInput(txt)
  \/ handleKeyPress
  \/ ClickSend
  \/ \E k \in Sends : \E ok \in BOOLEAN : UserSaveSettles(k, ok)
  \/ \E k \in Sends : TimerFires(k)
  \/ \E k \in Sends : \E ok \in BOOLEAN : BotSaveSettles(k, ok)
  \/ Advance(TimerDelay)

\* the same with time followed to the millisecond
ClockNext ==
  \/ \E txt \in ChatTexts : SetInput(txt)
  \/ handleKeyPress
  \/ ClickSend
  \/ \E k \in Sends : \E ok \in BOOLEAN : UserSaveSettles(k, ok)
  \/ \E k \in Sends : TimerFires(k)
  \/ \E k \in Sends : \E ok \in BOOLEAN : BotSaveSettles(k, ok)
  \/ \E d \in {1, TimerDelay} : Advance(d)

\* sign-in, sign-out and history loads around sends from the button, with a
\* store that answers every call
HistoryNext ==
  \/ \E txt \in ChatTexts : SetInput(txt)
  \/ ClickSend
  \/ \E k \in Sends : UserSaveSettles(k, TRUE)
  \/ \E k \in Sends : TimerFires(k)
  \/ \E k \in Sends : BotSaveSettles(k, TRUE)
  \/ Advance(TimerDelay)
  \/ \E u \in Accounts \cup {0} : AuthChange(u)
  \/ LoadSettles(TRUE)
  \/ GreetingSaveSettles(TRUE)

-----------------------------------------------------------------------------
(* Helper functions called on their own                                    *)

\* the longest string handed to calculateSimilarity
MaxSimLen == 4

\* the characters of those strings
SimChars == {"a", "b"}

SimStrings == UNION {[1..n -> SimChars] : n \in 0..MaxSimLen}

\* calculateSimilarity(str1, str2) is called once
CallSimilarity(str1, str2) ==
  /\ called = ""
  /\ called' = "calculateSimilarity"
  /\ args' = <<str1, str2>>
  /\ result' = calculateSimilarity(str1, str2)
  /\ UNCHANGED notCall

SimilarityNext == \E str1, str2 \in SimStrings : CallSimilarity(str1, str2)

\* the longest blob handed to convertBlobToBase64, in bytes
MaxBytes == 3

\* the values of those bytes
ByteValues == {0, 77, 255}

ByteStrings == UNION {[1..n -> ByteValues] : n \in 0..MaxBytes}

\* the types of those blobs; a comma is a character of its own
BlobTypes ==
  { <<>>,
    <<"audio/webm;codecs=opus">>,
    <<"video/webm;codecs=vp8", ",", "opus">> }

Blobs == {[bytes |-> b, type |-> t] : b \in ByteStrings, t \in BlobTypes}

\* the base64 alphabet
Base64Chars == UpperAlpha \o LowerAlpha \o Digits \o <<"+", "/">>

\* the base64 text of a sequence of bytes: three bytes make four characters,
\* the last group is padded with "="
RECURSIVE encodeBase64(_)
encodeBase64(bytes) ==
  IF Len(bytes) = 0 THEN <<>>
  ELSE IF Len(bytes) = 1
  THEN <<Base64Chars[(bytes[1] \div 4) + 1],
         Base64Chars[((bytes[1] % 4) * 16) + 1], "=", "=">>
  ELSE IF Len(bytes) = 2
  THEN <<Base64Chars[(bytes[1] \div 4) + 1],
         Base64Chars[((bytes[1] % 4) * 16) + (bytes[2] \div 16) + 1],
         Base64Chars[((bytes[2] % 16) * 4) + 1], "=">>
  ELSE <<Base64Chars[(bytes[1] \div 4) + 1],
         Base64Chars[((bytes[1] % 4) * 16) + (bytes[2] \div 16) + 1],
         Base64Chars[((bytes[2] % 16) * 4) + (bytes[3] \div 64) + 1],
         Base64Chars[(bytes[3] % 64) + 1]>>
       \o encodeBase64(SubSeq(bytes, 4, Len(bytes)))

\* what FileReader.readAsDataURL leaves in reader.result for a blob that was
\* read: "data:", the type, ";base64," and the base64 text.  A blob without a
\* type is given application/octet-stream.  For a blob without bytes the
\* platforms differ: some give the same form with an empty payload, some give
\* the bare "data:".
EmptyBlobForms == {"full", "bare"}

readAsDataURL(blob, emptyForm) ==
  IF Len(blob.bytes) = 0 /\ emptyForm = "bare" THEN <<"data:">>
  ELSE <<"data:">>
       \o (IF blob.type = <<>> THEN <<"application/octet-stream">> ELSE blob.type)
       \o <<";base64", ",">> \o encodeBase64(blob.bytes)

\* base64String.split(',')[1]: undefined when the text holds no comma
base64Content(base64String) ==
  LET parts == split(base64String, ",")
  IN  IF Len(parts) < 2 THEN Null ELSE parts[2]

\* convertBlobToBase64: how its promise stands when the read has ended.  A
\* failed read rejects it in onerror.  After a read, onloadend resolves it
\* with the payload; when split(',')[1] is undefined the handler throws on
\* base64Content.length before it resolves, and the promise stays pending.
convertBlobToBase64(blob, emptyForm, readOk) ==
  IF ~readOk
  THEN [state |-> "rejected", value |-> Null, read |-> Null]
  ELSE LET base64String == readAsDataURL(blob, emptyForm)
       IN  IF base64Content(base64String) = Null
           THEN [state |-> "pending", value |-> Null, read |-> base64String]
           ELSE [state |-> "resolved", value |-> base64Content(base64String),
                 read |-> base64String]

\* convertBlobToBase64(blob) is called once
CallConvert(blob, emptyForm, readOk) ==
  /\ called = ""
  /\ called' = "convertBlobToBase64"
  /\ args' = <<blob>>
  /\ result' = convertBlobToBase64(blob, emptyForm, readOk)
  /\ UNCHANGED notCall

ConvertNext ==
  \E blob \in Blobs : \E emptyForm \in EmptyBlobForms : \E readOk \in BOOLEAN :
    CallConvert(blob, emptyForm, readOk)

-----------------------------------------------------------------------------
(* AuthProvider of contexts/AuthContext.tsx: the local accounts            *)

\* the login and signup calls followed from their start to their return
MaxAuthCalls == 3

AuthCallIds == 1..MaxAuthCalls

\* a parameter that was not passed
Undefined == <<"undefined">>

\* A JavaScript object is the sequence of its <<key, value>> pairs in
\* insertion order; a value is a string.
hasKey(obj, key) == \E i \in 1..Len(obj) : obj[i][1] = key

\* obj[key] = value: an own key keeps its place, a new key goes to the end
setKey(obj, key, value) ==
  IF hasKey(obj, key)
  THEN [i \in 1..Len(obj) |-> IF obj[i][1] = key THEN <<key, value>> ELSE obj[i]]
  ELSE Append(obj, <<key, value>>)

\* delete obj[key]
RECURSIVE deleteKey(_, _)
deleteKey(obj, key) ==
  IF Len(obj) = 0 THEN <<>>
  ELSE (IF obj[1][1] = key THEN <<>> ELSE <<obj[1]>>) \o deleteKey(Tail(obj), key)

\* JSON.stringify of an object whose values are strings
RECURSIVE stringifyPairs(_)
stringifyPairs(obj) ==
  IF Len(obj) = 0 THEN <<>>
  ELSE <<"\"", obj[1][1], "\"", ":", "\"">> \o obj[1][2] \o <<"\"">>
       \o (IF Len(obj) > 1 THEN <<",">> ELSE <<>>)
       \o stringifyPairs(Tail(obj))

stringify(obj) == <<"{">> \o stringifyPairs(obj) \o <<"}">>

\* JSON.parse of such a text
parse(text) ==
  LET inner == SubSeq(text, 2, Len(text) - 1)
      parts == split(inner, ",")
  IN  IF Len(inner) = 0 THEN <<>>
      ELSE [i \in 1..Len(parts) |->
              <<parts[i][2], SubSeq(parts[i], 6, Len(parts[i]) - 1)>>]

demoUsers ==
  << << <<"id", <<"1">>>>, <<"name", <<"John Doe">>>>,
        <<"email", <<"user@demo.com">>>>, <<"password", <<"password">>>>,
        <<"role", <<"user">>>> >>,
     << <<"id", <<"2">>>>, <<"name", <<"Admin User">>>>,
        <<"email", <<"admin@demo.com">>>>, <<"password", <<"admin123">>>>,
        <<"role", <<"admin">>>> >> >>

valueOf(obj, key) == obj[CHOOSE i \in 1..Len(obj) : obj[i][1] = key][2]

\* demoUsers.find(u => u.email === email && u.password === password):
\* the places of the matching accounts, the first of which find returns
foundUsers(email, password) ==
  {i \in 1..Len(demoUsers) :
     /\ valueOf(demoUsers[i], "email") = email
     /\ valueOf(demoUsers[i], "password") = password}

\* a variant that stores the account as it was found
withoutPassword_kept(found) == found

\* { ...foundUser } with the password deleted
withoutPassword(found) == deleteKey(found, "password")

\* the (email, password) pairs a login is tried with
LoginPairs ==
  { << <<"user@demo.com">>, <<"password">> >>,
    << <<"admin@demo.com">>, <<"admin123">> >>,
    << <<"user@demo.com">>, <<"admin123">> >>,
    << <<"nobody@demo.com">>, <<"password">> >> }

\* the (name, email, password) triples of a signup
SignupTriples == { << <<"Ann">>, <<"ann@demo.com">>, <<"secret">> >> }

\* the arguments of updateProfile
ProfileNames == { <<"Ann">>, <<"Bob">> }
ProfileImages == { Undefined, <<>>, <<"img.png">> }

noAuthCall == [op |-> "none", name |-> <<>>, email |-> <<>>, password |-> <<>>]

\* what a call left behind: its result, and for a login its arguments and the
\* user and the stored item it found
noLastCall ==
  [op |-> "none", email |-> <<>>, password |-> <<>>, value |-> FALSE,
   userBefore |-> Null, storedBefore |-> Null]

completed(op, value) == [noLastCall EXCEPT !.op = op, !.value = value]

\* the items localStorage may hold under 'user' when the provider mounts:
\* none, or what an earlier visit stored
StoredAtMount == {Null, stringify(withoutPassword(demoUsers[1]))}

\* useState(null) and the mount effect, which reads the stored item
AuthStart(saved) ==
  /\ storedUser = saved
  /\ authUser = IF saved # Null THEN parse(saved) ELSE Null
  /\ renderedUser = authUser
  /\ authCalls = [c \in AuthCallIds |-> noAuthCall]
  /\ lastCall = noLastCall

AuthInit == \E saved \in StoredAtMount : AuthStart(saved)

\* the provider rests
AuthParked == AuthStart(Null)

\* login up to its await of the one-second timer
login(email, password) ==
  /\ \E c \in AuthCallIds :
       /\ authCalls[c] = noAuthCall
       /\ \A d \in AuthCallIds : d < c => authCalls[d] # noAuthCall
       /\ authCalls' = [authCalls EXCEPT ![c] =
             [op |-> "login", name |-> <<>>, email |-> email, password |-> password]]
  /\ UNCHANGED <<authUser, renderedUser, storedUser, lastCall>>
  /\ UNCHANGED notAuth

\* the timer of login call c fires and the rest of login runs
loginResumes(c) ==
  /\ authCalls[c].op = "login"
  /\ authCalls' = [authCalls EXCEPT ![c] = [noAuthCall EXCEPT !.op = "returned"]]
  /\ LET email    == authCalls[c].email
         password == authCalls[c].password
         found    == foundUsers(email, password)
         returned(value) ==
           [op |-> "login", email |-> email, password |-> password,
            value |-> value, userBefore |-> authUser, storedBefore |-> storedUser]
     IN  IF found # {}
         THEN LET userWithoutPassword == withoutPassword(demoUsers[Min(found)])
              IN  /\ authUser' = userWithoutPassword
                  /\ storedUser' = stringify(userWithoutPassword)
                  /\ lastCall' = returned(TRUE)
         ELSE /\ lastCall' = returned(FALSE)
              /\ UNCHANGED <<authUser, storedUser>>
  /\ UNCHANGED renderedUser
  /\ UNCHANGED notAuth

\* signup up to its await of the one-second timer
signup(name, email, password) ==
  /\ \E c \in AuthCallIds :
       /\ authCalls[c] = noAuthCall
       /\ \A d \in AuthCallIds : d < c => authCalls[d] # noAuthCall
       /\ authCalls' = [authCalls EXCEPT ![c] =
             [op |-> "signup", name |-> name, email |-> email, password |-> password]]
  /\ UNCHANGED <<authUser, renderedUser, storedUser, lastCall>>
  /\ UNCHANGED notAuth

\* the timer of signup call c fires and the rest of signup runs
signupResumes(c) ==
  /\ authCalls[c].op = "signup"
  /\ authCalls' = [authCalls EXCEPT ![c] = [noAuthCall EXCEPT !.op = "returned"]]
  /\ LET newUser == << <<"id", toString(now)>>, <<"name", authCalls[c].name>>,
                       <<"email", authCalls[c].email>>, <<"role", <<"user">>>> >>
     IN  /\ authUser' = newUser
         /\ storedUser' = stringify(newUser)
  /\ lastCall' = completed("signup", TRUE)
  /\ UNCHANGED renderedUser
  /\ UNCHANGED notAuth

logout ==
  /\ authUser' = Null
  /\ storedUser' = Null
  /\ lastCall' = completed("logout", FALSE)
  /\ UNCHANGED <<renderedUser, authCalls>>
  /\ UNCHANGED notAuth

\* updateProfile reads the user of the render its closure belongs to
updateProfile(name, profileImage) ==
  /\ IF renderedUser # Null
     THEN LET named       == setKey(renderedUser, "name", name)
              updatedUser == IF profileImage # Undefined /\ profileImage # <<>>
                             THEN setKey(named, "profileImage", profileImage)
                             ELSE named
          IN  /\ authUser' = updatedUser
              /\ storedUser' = stringify(updatedUser)
     ELSE UNCHANGED <<authUser, storedUser>>
  /\ lastCall' = completed("updateProfile", FALSE)
  /\ UNCHANGED <<renderedUser, authCalls>>
  /\ UNCHANGED notAuth

\* the provider renders again with the state the last setUser left
Render ==
  /\ renderedUser # authUser
  /\ renderedUser' = authUser
  /\ UNCHANGED <<authUser, storedUser, authCalls, lastCall>>
  /\ UNCHANGED notAuth

AuthNext ==
  \/ \E pair \in LoginPairs : login(pair[1], pair[2])
  \/ \E c \in AuthCallIds : loginResumes(c)
  \/ \E triple \in SignupTriples : signup(triple[1], triple[2], triple[3])
  \/ \E c \in AuthCallIds : signupResumes(c)
  \/ logout
  \/ \E name \in ProfileNames : \E profileImage \in ProfileImages :
       updateProfile(name, profileImage)
  \/ Render

-----------------------------------------------------------------------------
(* The specifications: each part of the program runs while the others rest *)

InitMatcher ==
  /\ MatcherInit
  /\ InputInit
  /\ LifeInit
  /\ AuthParked
  /\ CallInit
  /\ VoiceParked
  /\ ChatInit

SpecMatcher == InitMatcher /\ [][MatcherNext]_vars

InitVoice ==
  /\ MatcherInit
  /\ InputInit
  /\ LifeInit
  /\ AuthParked
  /\ CallInit
  /\ VoiceInit
  /\ ChatInit

SpecVoice == InitVoice /\ [][VoiceNext]_vars

\* the voice handlers with recordings that carry no data and meet no
\* recorder error
FormatsNext ==
  \/ ClickStart
  \/ \E h \in Sessions :
       \E caught \in {"NotAllowedError", "NotFoundError", "AbortError"} :
         MediaRejected(h, caught)
  \/ \E h \in Sessions :
       \E platform \in {"ok", "startThrows"} :
         MediaGranted(h, platform)
  \/ \E platform \in {"stopIgnored", "stopThrows"} : ClickStop(platform)
  \/ \E r \in Sessions : StopNotification(r, FALSE)
  \/ \E ok \in BOOLEAN : ConvertSettles(ok)
  \/ \E outcome \in SttOutcomes : SttSettles(outcome)

\* the same on every platform: any set of the preferred types may be the
\* supported ones
InitFormats ==
  /\ MatcherInit
  /\ InputInit
  /\ LifeInit
  /\ AuthParked
  /\ CallInit
  /\ \E sup \in SUBSET Range(mimeTypes) : VoiceStart(sup)
  /\ ChatInit

SpecFormats == InitFormats /\ [][FormatsNext]_vars

\* the voice handlers with the component torn down at any moment
TeardownNext == VoiceNext \/ Teardown

\* the recorder with a second caller of stopRecording; the chunks play no
\* part in how its promises settle
RecorderNext ==
  \/ ClickStart
  \/ \E h \in Sessions : MediaRejected(h, "NotAllowedError")
  \/ \E h \in Sessions :
       \E platform \in {"ok", "startThrows"} :
         MediaGranted(h, platform)
  \/ \E r \in Sessions : RecorderError(r)
  \/ \E platform \in {"stopIgnored", "stopThrows"} : ClickStop(platform)
  \/ \E platform \in {"stopIgnored", "stopThrows"} : StopRecordingCall(platform)
  \/ \E r \in Sessions : StopNotification(r, FALSE)
  \/ \E ok \in BOOLEAN : ConvertSettles(ok)
  \/ \E outcome \in SttOutcomes : SttSettles(outcome)

SpecRecorder == InitVoice /\ [][RecorderNext]_vars

SpecTeardown == InitVoice /\ [][TeardownNext]_vars

InitChat ==
  /\ MatcherInit
  /\ InputInit
  /\ LifeInit
  /\ AuthParked
  /\ CallInit
  /\ VoiceParked
  /\ \E u \in Accounts \cup {0} : ChatStart(u)

SpecChat == InitChat /\ [][ChatNext]_vars

SpecClock == InitChat /\ [][ClockNext]_vars

InitHistory ==
  /\ MatcherInit
  /\ InputInit
  /\ LifeInit
  /\ AuthParked
  /\ CallInit
  /\ VoiceParked
  /\ ChatInit

SpecHistory == InitHistory /\ [][HistoryNext]_vars

InitCalls ==
  /\ MatcherInit
  /\ InputInit
  /\ LifeInit
  /\ AuthParked
  /\ CallInit
  /\ VoiceParked
  /\ ChatInit

SpecSimilarity == InitCalls /\ [][SimilarityNext]_vars

SpecConvert == InitCalls /\ [][ConvertNext]_vars

InitAuth ==
  /\ MatcherInit
  /\ InputInit
  /\ LifeInit
  /\ CallInit
  /\ VoiceParked
  /\ ChatInit
  /\ AuthInit

SpecAuth == InitAuth /\ [][AuthNext]_vars

-----------------------------------------------------------------------------
(* Properties of the matcher                                               *)

\* rows of the table the call read whose lower-cased title is a search term
askedTerms == searchTermsOf(asked)

ExactRows ==
  LET terms == askedTerms
  IN  {i \in 1..Len(seenTable) :
         \E k \in 1..Len(terms) : toLowerCase(seenTable[i].title) = terms[k]}

\* C1: when a search term (a token of the lower-cased input longer than 2)
\* equals a topic's lower-cased title, the matcher returns the first such
\* topic in table order, whatever the other rows match by substring,
\* category, tag or fuzzy overlap.
C1_ExactTitleWins ==
  (asked # Null /\ ExactRows # {})
    => LET terms == askedTerms
       IN  /\ relevantInfo = <<seenTable[Min(ExactRows)]>>
           /\ \E k \in 1..Len(terms) :
                toLowerCase(relevantInfo[1].title) = terms[k]

\* an exact-title row was returned although an earlier row matches by title
\* substring and a later row by category
C1_Witness ==
  /\ asked # Null
  /\ Len(seenTable) = 2
  /\ ExactRows = {2}
  /\ \/ priority2(seenTable[1], askedTerms)
     \/ priority3(seenTable[1], askedTerms)
     \/ priority4(seenTable[1], askedTerms)
  /\ relevantInfo = <<seenTable[2]>>

\* the best (lowest-numbered) priority a row satisfies, 5 when it satisfies none
NoTier == 5

tierOf(info, searchTerms) ==
  IF priority1(info, searchTerms) THEN 1
  ELSE IF priority2(info, searchTerms) THEN 2
  ELSE IF priority3(info, searchTerms) THEN 3
  ELSE IF priority4(info, searchTerms) THEN 4
  ELSE NoTier

\* the best tier any row of the table the call read reaches
\* the tier of every row of the table the call read
rowTiers ==
  LET terms == askedTerms
  IN  [i \in 1..Len(seenTable) |-> tierOf(seenTable[i], terms)]

\* C2: the matcher returns none exactly when no row satisfies any tier;
\* otherwise it returns the first row, in table order, among those that reach
\* the best tier any row reaches.
C2_BestTierFirstRow ==
  asked # Null =>
    LET tiers == rowTiers
        best  == IF Len(seenTable) = 0 THEN NoTier ELSE Min(Range(tiers))
    IN  /\ (relevantInfo = None) <=> (best = NoTier)
        /\ best # NoTier =>
             relevantInfo = <<seenTable[Min({i \in 1..Len(seenTable) : tiers[i] = best})]>>

\* a row that matches only by category was passed over for a later row that
\* matches by title substring
C2_Witness ==
  /\ asked # Null
  /\ Len(seenTable) = 2
  /\ rowTiers[1] = 3
  /\ rowTiers[2] = 2
  /\ relevantInfo = <<seenTable[2]>>

isTopicResponse(r) == \E i \in 1..Len(seenTable) : r = topicResponse(seenTable[i])

isSuggestionResponse(r) ==
  /\ Len(r) >= Len(asked) + 3
  /\ r[1] = suggestionHead
  /\ SubSeq(r, 2, Len(asked) + 1) = asked
  /\ r[Len(asked) + 2] = suggestionMid
  /\ r[Len(r)] = suggestionTail

cannedResponses == {exerciseResponse, dietResponse, sleepResponse, stressResponse}

\* how many of the three families of answers r belongs to
familiesOf(r) ==
  Cardinality({f \in {"topic", "suggestion", "fixed"} :
     \/ f = "topic" /\ isTopicResponse(r)
     \/ f = "suggestion" /\ isSuggestionResponse(r)
     \/ f = "fixed" /\ r \in cannedResponses \cup {defaultResponse}})

hasFixedKeyword(txt) ==
  \/ includesAny(txt, exerciseKeywords)
  \/ includesAny(txt, dietKeywords)
  \/ includesAny(txt, sleepKeywords)
  \/ includesAny(txt, stressKeywords)

\* C3: generateHealthResponse raises no error on any table of the data model
\* (tags may be null or empty) and returns exactly one of the topic response,
\* the suggestion response, a canned paragraph or the generic disclaimer; it
\* returns the generic disclaimer when no topic matches and the input holds
\* no disease keyword and no fixed-topic keyword.
C3_Total ==
  asked # Null =>
    /\ response # TypeError
    /\ familiesOf(response) = 1
    /\ ( /\ relevantInfo = None
         /\ ~isDiseaseQuery(asked)
         /\ ~hasFixedKeyword(toLowerCase(asked)) )
       => response = defaultResponse

\* the generic disclaimer was returned for a text without keywords although
\* the table held a row whose tags are null
C3_Witness ==
  /\ asked # Null
  /\ \E i \in 1..Len(seenTable) : seenTable[i].tags = Null
  /\ Len(askedTerms) > 0
  /\ relevantInfo = None
  /\ response = defaultResponse

\* the fraction is the number 1
isOne(q) == q.den > 0 /\ q.num = q.den

\* the fraction is the number 0
isZero(q) == q.den > 0 /\ q.num = 0

\* C16: calculateSimilarity(a, a) is 1 for every string a of length at least
\* 3, and calculateSimilarity(a, b) is 0 whenever a or b is shorter than 3.
C16_SimilarityEnds ==
  called = "calculateSimilarity" =>
    /\ (args[1] = args[2] /\ Len(args[1]) >= 3) => isOne(result)
    /\ (Len(args[1]) < 3 \/ Len(args[2]) < 3) => isZero(result)

\* a string of three characters was compared with itself
C16_Witness ==
  /\ called = "calculateSimilarity"
  /\ Len(args[1]) = 3
  /\ args[2] = args[1]
  /\ isOne(result)

\* the pieces of a rendered topic, in order: the emphasized title and a blank
\* line, the description and a blank line, the category line, the line of
\* related topics when there are tags, the disclaimer
renderedParts(info) ==
  << <<"**">> \o info.title \o <<"**\n\n">>,
     info.description,
     <<"\n\n**Category:** ">> \o info.category >>
  \o (IF info.tags # Null /\ Len(info.tags) > 0
      THEN << <<"\n**Related Topics:** ">> \o info.tags >> ELSE << >>)
  \o << disclaimerLine >>

hasRelatedLine(r) == \E i \in 1..Len(r) : r[i] = "\n**Related Topics:** "

\* C17: the response for a matched topic is, in this order, the emphasized
\* title, a blank line, the description, a blank line, the category line, a
\* related-topics line with the tags exactly when the tags are not empty, and
\* the disclaimer; it contains the topic's title and category.
C17_TopicTemplate ==
  (asked # Null /\ relevantInfo # None) =>
    LET info == relevantInfo[1]
    IN  /\ response = join(renderedParts(info), <<>>)
        /\ hasRelatedLine(response) <=> (info.tags # Null /\ info.tags # <<>>)
        /\ includes(response, info.title)
        /\ includes(response, info.category)
        /\ response[Len(response)] = disclaimerLine[1]

\* a topic with tags was matched and rendered with its related-topics line
C17_Witness ==
  /\ asked # Null
  /\ relevantInfo # None
  /\ truthy(relevantInfo[1].tags)
  /\ hasRelatedLine(response)
  /\ includes(response, relevantInfo[1].tags)

\* the search terms of the call that are part of the lower-cased title of row i
termsInTitle(i) ==
  {k \in 1..Len(askedTerms) :
     includes(toLowerCase(seenTable[i].title), askedTerms[k])}

\* C20: a search term of exactly 4 characters that is part of a topic's
\* lower-cased title makes the topic a match of the title-substring tier; a
\* topic whose title holds only search terms of exactly 3 characters, as
\* proper substrings, is no match of that tier.  When a term of 4 characters
\* is part of some title and no title equals a term, the topic returned is
\* one whose title holds a term longer than 3.
C20_TitleTermThreshold ==
  asked # Null =>
    /\ \A i \in 1..Len(seenTable) :
         /\ (\E k \in termsInTitle(i) : Len(askedTerms[k]) = 4)
              => priority2(seenTable[i], askedTerms)
         /\ ( /\ termsInTitle(i) # {}
              /\ \A k \in termsInTitle(i) :
                   /\ Len(askedTerms[k]) = 3
                   /\ askedTerms[k] # toLowerCase(seenTable[i].title) )
              => /\ ~priority2(seenTable[i], askedTerms)
                 /\ rowTiers[i] \in {3, 4}
    /\ ( /\ ExactRows = {}
         /\ \E i \in 1..Len(seenTable) :
              \E k \in termsInTitle(i) : Len(askedTerms[k]) = 4 )
       => /\ relevantInfo # None
          /\ \E k \in 1..Len(askedTerms) :
               /\ Len(askedTerms[k]) > 3
               /\ includes(toLowerCase(relevantInfo[1].title), askedTerms[k])

\* "care" was asked of a table whose second row is Diabetes Care, after a
\* row it does not match: the second row was returned at tier 2
C20_Witness ==
  /\ asked = <<"c","a","r","e">>
  /\ Len(seenTable) = 2
  /\ rowTiers[1] = NoTier
  /\ rowTiers[2] = 2
  /\ relevantInfo = <<seenTable[2]>>

\* the tags of a row as a list: split at the commas, each part trimmed; a row
\* without tags has none
RECURSIVE trimEach(_)
trimEach(parts) ==
  IF Len(parts) = 0 THEN <<>> ELSE <<trim(parts[1])>> \o trimEach(Tail(parts))

parsedTags(info) ==
  IF truthy(info.tags) THEN trimEach(split(toLowerCase(info.tags), ",")) ELSE <<>>

\* the words the fuzzy tier is said to compare with the search terms
fuzzyWords(info) ==
  split(toLowerCase(info.title), " ") \o split(toLowerCase(info.category), " ")
    \o parsedTags(info)

\* a word of the title, of the category or a tag overlaps a search term
fuzzyOverlap(info, searchTerms) ==
  LET words == fuzzyWords(info)
  IN  \E k \in 1..Len(searchTerms) : \E w \in 1..Len(words) :
        \/ includes(words[w], searchTerms[k])
        \/ includes(searchTerms[k], words[w])
        \/ aboveThreshold(calculateSimilarity(words[w], searchTerms[k]))

\* C21: a topic one of whose title words, category words or tags contains a
\* search term, is contained in one, or is similar to one, is a match of the
\* fuzzy tier: when a row of the table overlaps in that way the matcher
\* returns a topic, and when no row matches at a better tier it returns the
\* first such row.
C21_FuzzyCategoryTag ==
  asked # Null =>
    LET hits == {i \in 1..Len(seenTable) : fuzzyOverlap(seenTable[i], askedTerms)}
    IN  hits # {} =>
          /\ relevantInfo # None
          /\ (\A i \in 1..Len(seenTable) : rowTiers[i] > 3)
               => relevantInfo = <<seenTable[Min(hits)]>>

-----------------------------------------------------------------------------
\* the part of a text before its first blank
firstWord(s) ==
  LET blanks == {i \in 1..Len(s) : s[i] = " "}
  IN  IF blanks = {} THEN s ELSE SubSeq(s, 1, Min(blanks) - 1)

\* the places in the common-disease list of the names related to a text
relatedPlaces(txt) ==
  {i \in 1..Len(commonDiseases) :
     \/ includes(commonDiseases[i], firstWord(txt))
     \/ includes(txt, firstWord(commonDiseases[i]))}

\* the first n places of a set of places, in list order
RECURSIVE firstPlaces(_, _)
firstPlaces(places, n) ==
  IF n = 0 \/ places = {} THEN <<>>
  ELSE <<Min(places)>> \o firstPlaces(places \ {Min(places)}, n - 1)

\* the first at most three related names, separated by ", "
firstThreeNames(txt) ==
  LET ps == firstPlaces(relatedPlaces(txt), 3)
  IN  join([k \in 1..Len(ps) |-> commonDiseases[ps[k]]], <<",", " ">>)

\* the text contains one of the 22 disease keyword stems
hasDiseaseStem(txt) ==
  \E k \in 1..Len(diseaseKeywords) : includes(txt, diseaseKeywords[k])

\* a response was computed, no topic matched, and the lower-cased input
\* contains a disease keyword stem
suggestionCase ==
  /\ asked # Null
  /\ response # TypeError
  /\ relevantInfo = None
  /\ hasDiseaseStem(toLowerCase(asked))

\* C22 as stated: when no topic matches and the lower-cased input contains a
\* disease keyword stem, the response is the suggestion response whose terms
\* are the first at most 3 related names of the common-disease list
C22_SuggestionTerms_asStated ==
  suggestionCase =>
    response = suggestionResponse(asked, firstThreeNames(toLowerCase(asked)))

\* C22 (amended): when no topic matches and the lower-cased input contains a
\* disease keyword stem, the response is the suggestion response, before any
\* fixed-topic keyword group; its terms are the first at most 3 related names
\* of the common-disease list, in list order, and the fixed phrase of
\* getSuggestedDiseaseTerms when no name is related
C22_SuggestionTerms ==
  suggestionCase =>
    response = suggestionResponse(asked,
                 IF relatedPlaces(toLowerCase(asked)) = {}
                 THEN noSuggestionText
                 ELSE firstThreeNames(toLowerCase(asked)))

\* more than three names are related and three are listed
C22_Witness ==
  /\ suggestionCase
  /\ Cardinality(relatedPlaces(toLowerCase(asked))) > 3
  /\ response = suggestionResponse(asked, firstThreeNames(toLowerCase(asked)))

\* an input with 'anxiety' gets the suggestion response, not the stress one
C22_AnxietyWitness ==
  /\ asked = <<"a","n","x","i","e","t","y">>
  /\ relevantInfo = None
  /\ response = suggestionResponse(asked, <<"a","n","x","i","e","t","y">>)

\* the four fixed keyword groups in the order they are tested, each with its
\* canned paragraph
keywordGroups ==
  << [keywords |-> exerciseKeywords, paragraph |-> exerciseResponse],
     [keywords |-> dietKeywords,     paragraph |-> dietResponse],
     [keywords |-> sleepKeywords,    paragraph |-> sleepResponse],
     [keywords |-> stressKeywords,   paragraph |-> stressResponse] >>

\* the groups one of whose keywords occurs in a text
groupsIn(txt) ==
  {g \in 1..Len(keywordGroups) :
     \E k \in 1..Len(keywordGroups[g].keywords) :
        includes(txt, keywordGroups[g].keywords[k])}

\* a response was computed, no topic matched, and the lower-cased input
\* contains no disease keyword stem
keywordCase ==
  /\ asked # Null
  /\ response # TypeError
  /\ relevantInfo = None
  /\ ~hasDiseaseStem(toLowerCase(asked))

\* C23: when no topic matches and the input contains no disease keyword, the
\* response is the canned paragraph of the first of the groups exercise, diet,
\* sleep, stress one of whose keywords occurs in the lower-cased input
C23_FirstKeywordGroup ==
  keywordCase =>
    LET hits == groupsIn(toLowerCase(asked))
    IN  hits # {} => response = keywordGroups[Min(hits)].paragraph

\* an input with both 'food' and 'sleep' yields the diet paragraph
C23_Witness ==
  /\ keywordCase
  /\ asked = <<"f","o","o","d"," ","a","n","d"," ","s","l","e","e","p">>
  /\ groupsIn(toLowerCase(asked)) = {2, 3}
  /\ response = dietResponse

-----------------------------------------------------------------------------
(* Properties of the recorder and of the voice handlers *)

\* the recorder's session is in the recording state
sessionRecording ==
  IF mediaRecorder = 0 THEN FALSE ELSE recState[mediaRecorder] = "recording"

\* C4: a stopRecording call made while the session is not in the recording
\* state fails with the NotRecording error ("No recording in progress") and
\* leaves the recorder, the stream, the buffered chunks and the installed
\* handlers as they were.
C4_StopWhenNotRecordingFails ==
  [][(stopCalls' = stopCalls + 1 /\ ~sessionRecording)
       => /\ stopResult' = "NotRecording"
          /\ UNCHANGED <<mediaRecorder, stream, audioChunks, onstop>>]_vars

\* C5: no track is released twice, and once the stop of a successfully started
\* session has completed (its stopRecording call resolved) the track that
\* session acquired has been released exactly once.
C5_EachTrackReleasedOnce ==
  \A h \in Sessions :
    /\ trackStops[h] <= 1
    /\ (stopRec = h /\ stopResult = "resolved") => trackStops[h] = 1

\* C6: the blob stopRecording resolves with is made of exactly the chunks
\* handed to the stopped session's recorder, in arrival order, its size is the
\* sum of their sizes, and its type is the MIME type that recorder was built
\* with.
C6_BlobIsSessionChunks ==
  (stopResult = "resolved" /\ stopPc = "awaitConvert")
    => /\ audioBlob.parts = deliveredTo(stopRec)
       /\ audioBlob.size = sumOf(sizesOf(deliveredTo(stopRec)))
       /\ audioBlob.type = recMime[stopRec]

\* an event is pending that lets handleStopRecording reach its finally block
processingWillClear ==
  \/ stopPc \in {"awaitConvert", "awaitStt"}
  \/ /\ stopPc = "awaitStop"
     /\ stopRec # 0
     /\ stopQueued[stopRec]
     /\ onstop[stopRec] = stopCalls

\* C10: the processing flag is never set without a pending event that clears it
C10_NoStuckFlag == isProcessingAudio => processingWillClear

\* the platform owes the handlers nothing more: no getUserMedia call is
\* pending and no stop notification is queued
platformQuiet ==
  /\ \A h \in Sessions : startPc[h] # "awaitMedia"
  /\ \A r \in Sessions : ~stopQueued[r]

\* C11: when the component is torn down while a session is recording, the
\* track that session acquired is released exactly once: never twice, and once
\* by the time the platform has delivered everything it owed.
C11_TeardownReleases ==
  tornDown # 0 =>
    /\ trackStops[tornDown] <= 1
    /\ platformQuiet => trackStops[tornDown] = 1

\* the streams getUserMedia handed out whose track has not been stopped
unreleased == {h \in acquired : trackStops[h] = 0}

\* C12: at every moment at most one acquired and not yet released microphone
\* stream exists: no stream is acquired while an earlier one is unreleased.
C12_OneLiveStream == Cardinality(unreleased) <= 1

\* the kind of failure the catch block of startRecording was handed
failureOf(caught) ==
  IF caught = "NotAllowedError" THEN "PermissionDenied"
  ELSE IF caught = "NotFoundError" THEN "DeviceNotFound"
  ELSE IF caught = noFormatMessage THEN "UnsupportedFormat"
  ELSE "CaptureError"

\* the condition a caller reads from the error startRecording threw: the two
\* fixed messages, the generic "Failed to access microphone: ..." wrapper, or
\* the unsupported-format error as it is raised
reportedAs(message) ==
  IF message = Null THEN "none"
  ELSE IF message = deniedMessage THEN "PermissionDenied"
  ELSE IF message = notFoundMessage THEN "DeviceNotFound"
  ELSE IF message = <<noFormatMessage>> THEN "UnsupportedFormat"
  ELSE IF message[1] = failedMessage("")[1] THEN "CaptureError"
  ELSE "other"

\* C13: a startRecording call whose acquisition failed does not complete
\* normally, and the error it throws reports the kind of the failure:
\* permission denial, missing device, unsupported format and every other
\* failure are reported as four different conditions.
C13_DistinctStartErrors ==
  \A h \in Sessions :
    startCaught[h] # "" =>
      /\ startPc[h] = "failed"
      /\ startThrown[h] # Null
      /\ reportedAs(startThrown[h]) = failureOf(startCaught[h])

\* the text is base64: groups of four characters of the alphabet, "=" only
\* as padding at the end
isBase64(s) ==
  /\ Len(s) % 4 = 0
  /\ \A i \in 1..Len(s) :
       \/ s[i] \in Range(Base64Chars)
       \/ s[i] = "=" /\ i > Len(s) - 2 /\ (i = Len(s) \/ s[Len(s)] = "=")

b64Value(c) == (CHOOSE i \in 1..Len(Base64Chars) : Base64Chars[i] = c) - 1

\* the bytes a base64 text stands for
RECURSIVE decodeBase64(_)
decodeBase64(s) ==
  IF Len(s) < 4 THEN <<>>
  ELSE LET n1 == b64Value(s[1])
           n2 == b64Value(s[2])
       IN  (IF s[3] = "="
            THEN <<(n1 * 4) + (n2 \div 16)>>
            ELSE IF s[4] = "="
            THEN <<(n1 * 4) + (n2 \div 16),
                   ((n2 % 16) * 16) + (b64Value(s[3]) \div 4)>>
            ELSE <<(n1 * 4) + (n2 \div 16),
                   ((n2 % 16) * 16) + (b64Value(s[3]) \div 4),
                   ((b64Value(s[3]) % 4) * 64) + b64Value(s[4])>>)
           \o decodeBase64(SubSeq(s, 5, Len(s)))

\* C18: for every blob that is read, the empty blob included,
\* convertBlobToBase64 settles with a text that is base64 alone, without any
\* part of the data-URL prefix, and that decodes to the bytes of the blob.
C18_Base64RoundTrip ==
  (called = "convertBlobToBase64" /\ result.state # "rejected") =>
    /\ result.state = "resolved"
    /\ isBase64(result.value)
    /\ decodeBase64(result.value) = args[1].bytes

\* some entry of the preference list is supported
anySupported == \E i \in 1..Len(mimeTypes) : mimeTypes[i] \in supportedTypes

\* C19: whatever set of types the platform supports, a recorder is created
\* with the first supported entry of the preference list; when no entry is
\* supported no recorder is created, the call fails once it has its stream,
\* and no session is ever recording.
C19_FirstSupportedType ==
  \A h \in Sessions :
    /\ recState[h] # "none" =>
         \E i \in 1..Len(mimeTypes) :
           /\ recMime[h] = mimeTypes[i]
           /\ mimeTypes[i] \in supportedTypes
           /\ \A j \in 1..(i - 1) : mimeTypes[j] \notin supportedTypes
    /\ ~anySupported =>
         /\ recState[h] = "none"
         /\ mediaRecorder = 0
         /\ h \in acquired => startPc[h] = "failed"

\* on a platform without the first entry but with the last two, a recorder
\* records with the third
C19_Witness ==
  /\ mimeTypes[1] \notin supportedTypes
  /\ mimeTypes[2] \notin supportedTypes
  /\ mimeTypes[4] \in supportedTypes
  /\ \E h \in Sessions : recState[h] = "recording" /\ recMime[h] = mimeTypes[3]

\* C25: the interface's recording flag agrees with the recorder: whenever the
\* recorder of the VoiceRecorder is recording, isRecording is true, so that the
\* microphone button stops the recording
C25_FlagFollowsRecorder == sessionRecording => isRecording

\* the startRecording call of session h fails in this step
startFails(h) == startPc[h] = "awaitMedia" /\ startPc'[h] = "failed"

\* C27: when startRecording fails after the microphone stream was acquired,
\* the track of that stream has been released by the time the error is
\* reported
C27_FailedStartReleases ==
  [][\A h \in Sessions :
       (startFails(h) /\ h \in acquired') => trackStops'[h] >= 1]_vars

\* C29: at most one recording-duration interval exists at any time, and an
\* interval is active only while the component is mounted and its recording
\* flag is set: every interval handleStartRecording created is cleared when
\* the interface is idle again or the component is torn down
C29_TimerOnlyWhileRecording ==
  /\ Cardinality(activeTimers) <= 1
  /\ activeTimers # {} => (mounted /\ isRecording)

\* the stop notification of recorder r is delivered in this step
stopDelivered(r) == stopQueued[r] /\ ~stopQueued'[r]

\* C24: every promise returned by stopRecording settles when the platform
\* delivers the stop notification of its recorder: no promise of a call made
\* on a recorder is still pending after that recorder's stop notification,
\* also when a second call was made before the notification
C24_StopSettles ==
  [][\A r \in Sessions :
       stopDelivered(r) =>
         \A c \in StopCallIds :
           (stopPromises[c].state = "pending" /\ stopPromises[c].rec = r)
             => stopPromises'[c].state # "pending"]_vars

-----------------------------------------------------------------------------
(* Properties of the conversation *)

\* the bot response of invocation k has been appended
botAppended(k) == sendPc[k] \in {"botSaving", "done"}

\* where the messages of invocation k stand in the log
userAt(k) == {n \in 1..Len(messages) : ~messages[n].isBot /\ messages[n].of = k}

botAt(k) == {n \in 1..Len(messages) : messages[n].isBot /\ messages[n].of = k}

\* C7: the bot response of a handleSend invocation is appended only after that
\* invocation appended its user message and, when a user was signed in, after
\* its save of the user message returned; in the log a bot response never
\* comes before its own user message.
C7_BotAfterUser ==
  \A k \in Sends :
    /\ (botAppended(k) /\ sendUser[k] # 0) => k \in saveDone
    /\ \A b \in botAt(k) : \A u \in userAt(k) : u < b

C7_Witness ==
  \E k \in Sends :
    /\ botAppended(k)
    /\ sendUser[k] # 0
    /\ k \in saveDone
    /\ userAt(k) # {} /\ botAt(k) # {}

\* the save of the user message of invocation k returned without a row stored
userSaveFailed(k) ==
  /\ k \in saveDone
  /\ ~\E n \in 1..Len(db) : db[n].of = k /\ ~db[n].is_bot

\* C14: a failed save does not stop the conversation.  The user message of a
\* send whose save failed is in the log, its timer is set or has run, the bot
\* response the timer appended is the generated one, and the typing indicator
\* is set only while some send still has its response to come.
C14_SaveFailureNotFatal ==
  /\ \A k \in Sends :
       userSaveFailed(k) =>
         /\ userAt(k) # {}
         /\ sendPc[k] \in {"waiting", "botSaving", "done"}
         /\ sendPc[k] = "waiting" => sendDue[k] > 0
         /\ botAppended(k) =>
              \E b \in botAt(k) : messages[b].text = generateHealthResponse(sendText[k])
  /\ isTyping => \E k \in Sends : sendPc[k] \in {"saving", "waiting"}

\* the save of a send failed, its bot response came all the same, and the
\* next send went through to its own bot response with the indicator cleared
C14_Witness ==
  /\ ~isTyping
  /\ \E k, k2 \in Sends :
       /\ k < k2
       /\ userSaveFailed(k)
       /\ botAt(k) # {}
       /\ userAt(k2) # {}
       /\ botAt(k2) # {}
       /\ sendPc[k2] = "done"

\* C15: a handleSend call made with an input that is empty or only white
\* space returns without an error and changes neither the log, the input
\* field, the typing indicator, the stored conversation nor any timer.
C15_BlankSendIsNoOp ==
  [][(trim(input) = <<>> /\ lastSend' # lastSend)
       => /\ lastSend' = "ignored"
          /\ UNCHANGED <<input, messages, isTyping, db, sendPc, sendDue, sendText,
                         saveDone>>]_vars

\* Enter was pressed on a field holding a blank, after a send that went through
C15_Witness ==
  /\ lastSend = "ignored"
  /\ input = <<" ">>
  /\ sendsBegun = 1
  /\ Len(messages) >= 2

\* log a is an initial part of log b
isPrefix(a, b) == Len(a) <= Len(b) /\ \A n \in 1..Len(a) : b[n] = a[n]

\* the step is an authentication-state change or the end of a history load
reloadStep == user' # user \/ loadsPending' # loadsPending

\* C8 (as stated): whatever the step, every message of the log is still in
\* it, unchanged and at the same place; the log is only extended at its end.
C8_AppendOnly == [][isPrefix(messages, messages')]_vars

\* C8 (amended): sends and bot responses only extend the log at its end; only
\* an authentication-state change or a completed history load replaces it.
C8_AppendOnlyBetweenReloads == [][reloadStep \/ isPrefix(messages, messages')]_vars

\* a loaded history has been extended by a send and its bot response
C8_Witness ==
  /\ Len(messages) >= 3
  /\ messages[1].id = rowId(1)
  /\ messages[Len(messages)].isBot
  /\ messages[Len(messages)].of # 0
  /\ ~messages[Len(messages) - 1].isBot

\* C9: the ids of the messages in the log are pairwise distinct
C9_DistinctIds ==
  \A m, n \in 1..Len(messages) : m # n => messages[m].id # messages[n].id

\* the handleSend invocations whose bot response has not been appended yet
responsesPending == {k \in Sends : sendPc[k] \in {"saving", "waiting"}}

\* C26: at most one bot response is pending at any time, and the typing
\* indicator is true exactly while a bot response is pending (no send starts
\* while isTyping is true, from the Send button or the Enter key)
C26_OneResponsePending ==
  /\ Cardinality(responsesPending) <= 1
  /\ isTyping <=> responsesPending # {}

\* the stored rows that hold the greeting
greetingRows == {n \in 1..Len(db) : db[n].message = greetingText}

\* C28: the greeting is persisted at most once for a user whose stored history
\* was empty, also when the user state is set more than once and two
\* loadChatHistory runs overlap
C28_GreetingSavedOnce == Cardinality(greetingRows) <= 1

-----------------------------------------------------------------------------
(* Properties of the authentication provider *)

\* the user record in browser storage, null when the item is absent
storedRecord == IF storedUser = Null THEN Null ELSE parse(storedUser)

\* the two demo accounts
isDemoPair(email, password) ==
  \/ email = <<"user@demo.com">> /\ password = <<"password">>
  \/ email = <<"admin@demo.com">> /\ password = <<"admin123">>

\* C30: after every completed login, signup, logout or updateProfile the user
\* record in browser storage equals the in-memory current user, is absent
\* exactly when there is no current user, and has no password field; a login
\* with a pair that is not a demo account returns false and changes neither
C30_StorageMatchesUser ==
  /\ (storedUser = Null) <=> (authUser = Null)
  /\ storedRecord = authUser
  /\ storedUser # Null => ~hasKey(storedRecord, "password")
  /\ (lastCall.op = "login" /\ ~isDemoPair(lastCall.email, lastCall.password))
       => /\ lastCall.value = FALSE
          /\ authUser = lastCall.userBefore
          /\ storedUser = lastCall.storedBefore

\* a login with a wrong password has returned while a user with a profile
\* image was signed in and another call was waiting for its timer
C30_Witness ==
  /\ lastCall.op = "login"
  /\ ~isDemoPair(lastCall.email, lastCall.password)
  /\ authUser # Null
  /\ hasKey(authUser, "profileImage")
  /\ \E c \in AuthCallIds : authCalls[c].op \in {"login", "signup"}

=============================================================================
